---- MODULE Spec2Model ----
(***************************************************************************)
(* Verification model of the ModelT warehouse tools (trueshot/modesto).    *)
(*                                                                         *)
(* Coordinates and lengths are feet in the source (IEEE doubles).  The     *)
(* model keeps them as binary floating-point numbers of SignificandBits    *)
(* bits whose unit in the last place is at least 1/Foot ft, written as the *)
(* integer number of such units.  With Foot = 1024 the tolerances of the   *)
(* source (0.001 ft, 0.1 ft) and its half-foot offsets are representable:  *)
(* a difference of one unit is below 0.001 ft and a difference of two      *)
(* units is above it.  Every sum, difference and product the source        *)
(* computes is rounded to the nearest representable number, ties to even,  *)
(* as the source's arithmetic is; numbers below 2^SignificandBits units    *)
(* (32 ft) are exact.                                                      *)
(***************************************************************************)
EXTENDS Integers, Sequences, FiniteSets, TLC

\* generate-svg.js: turtle pipeline under test (pure functions)
VARIABLES polygon, turtle, replayed, tpc

\* generate-svg.js main(): the specification file first read (inputData), as
\* normalized in place (warehouseSpec), the violations reported, the SVG written (a
\* sequence of at most one document), the uncaught error, the position in
\* main, and, for a regeneration from the embedded JSON, the pass number
\* and the SVG of the first pass
VARIABLES inputData, warehouseSpec, violations, svg, err, pc, pass, firstSvg

\* part_006 ModelTBuilder.buildPartitionWallMesh: the partition wall and the
\* doors it is called with (wallArg, doorsArg), the meshes pushed (one per
\* segment) and the position of the call
VARIABLES wallArg, doorsArg, meshes, bpc

\* modelt-cli.js add-door: the option arguments of the command line
\* (cliArgs), the options parsed from them, the editor (its data and the
\* door names of its NameManager), the ModelT file, the ModelT file as it
\* was when the command started, the JSON printed (a sequence of at most
\* one result) and the position in the command
VARIABLES cliArgs, cliOptions, cliData, cliFile, cliFileBefore, cliResult, cpc

\* svg-grid-parser.js: the boolean grid, the rectangles found in it, the
\* ZPL boxes generated for them and the position of the conversion
VARIABLES grid, rectangles, zplBoxes, rpc

\* svg-to-zpl-cli main(): the arguments and the file system it reads
\* (zplArgs), the ZPL files written, the exit code (a sequence of at most
\* one code), the error message printed and the position in main
VARIABLES zplArgs, zplFiles, zplExit, zplMessage, zpc

\* the warehouses API: the files of the warehouse folder and of the server
\* (folder), the response sent to GET /:id and to GET /:id/svg (sequences
\* of at most one response)
VARIABLES folder, specResponse, svgResponse

\* part_006 ModelTBuilder.buildWallMesh: the closed wall and the doors it
\* is called with, the wall segments created and the position of the call
VARIABLES perimeter, perimeterDoors, wallSegments, wpc

\* server.js WebSocket server: the clients map (warehouse id -> set of
\* connections), the readyState of each connection, the clientWarehouseId
\* of each connection's handler, and the messages handled so far, each
\* with the connections it was forwarded to
VARIABLES clients, readyState, clientWarehouseId, relayLog

\* server.js markedPositions, the mark-position messages handled so far
\* and the responses sent to GET /api/warehouses/:id/marked-position
VARIABLES markedPositions, markLog, markedResponse

\* modelt-query: the position of the process, its arguments, its query
\* id, the messages it sent, the messages it received and what it printed
\* and exited with (a sequence of at most one result)
VARIABLES qpc, qArgs, queryId, qSent, qReceived, qResult

\* ModelTEditor: this.data after the operations applied so far, and the
\* operations applied
VARIABLES edData, edLog

varsTurtle == <<polygon, turtle, replayed, tpc>>

varsCli == <<cliArgs, cliOptions, cliData, cliFile, cliFileBefore, cliResult, cpc>>

varsRect == <<grid, rectangles, zplBoxes, rpc>>

varsZpl == <<zplArgs, zplFiles, zplExit, zplMessage, zpc>>

varsServer == <<folder, specResponse, svgResponse>>

varsWall == <<perimeter, perimeterDoors, wallSegments, wpc>>

varsTools == <<varsCli, varsRect, varsZpl, varsServer, varsWall>>

varsRelay == <<clients, readyState, clientWarehouseId, relayLog>>

varsMarks == <<markedPositions, markLog, markedResponse>>

varsQuery == <<qpc, qArgs, queryId, qSent, qReceived, qResult>>

varsEditor == <<edData, edLog>>

varsNet == <<varsRelay, varsMarks, varsQuery, varsEditor>>

varsProfile == <<wallArg, doorsArg, meshes, bpc>>

varsMain == <<inputData, warehouseSpec, violations, svg, err, pc, pass, firstSvg>>

vars == <<polygon, turtle, replayed, tpc,
          inputData, warehouseSpec, violations, svg, err, pc, pass, firstSvg,
          wallArg, doorsArg, meshes, bpc,
          cliArgs, cliOptions, cliData, cliFile, cliFileBefore, cliResult, cpc,
          grid, rectangles, zplBoxes, rpc,
          zplArgs, zplFiles, zplExit, zplMessage, zpc,
          folder, specResponse, svgResponse,
          perimeter, perimeterDoors, wallSegments, wpc,
          clients, readyState, clientWarehouseId, relayLog,
          markedPositions, markLog, markedResponse,
          qpc, qArgs, queryId, qSent, qReceived, qResult,
          edData, edLog>>

----------------------------------------------------------------------------
\* Units and bounds

\* one foot, in model units
Foot == 1024

\* bits of the significand of a number
SignificandBits == 15

\* largest coordinate (in model units) of the fine-grained corner lists
\* below the exact range
MaxCoord == 2

\* longest corner list of the fine-grained corner lists
MaxCorners == 4

\* longest fine-grained corner list given to main as a shape
MaxShapeCorners == 3

\* longest segment list of the generic turtle paths given to main
MaxSegments == 2

\* longest side of the rectangles given to main, in half feet
MaxHalfFeet == 6

\* most walls of a v2 slab
MaxWalls == 2

\* most doors given to buildPartitionWallMesh
MaxDoors == 2

\* partition paths have up to this many segments
MaxPartitionSegments == 3

----------------------------------------------------------------------------
\* Values

Pt(px, py) == [x |-> px, y |-> py]

Seg(d, l) == [direction |-> d, length |-> l]

Directions == {"north", "south", "east", "west"}

Abs(n) == IF n < 0 THEN -n ELSE n

\* Math.abs(d) < 0.001
Within001(d) == Abs(d) * 1000 < Foot

\* 2^n
RECURSIVE Pow2(_)
Pow2(n) == IF n = 0 THEN 1 ELSE 2 * Pow2(n - 1)

\* significands are below 2^SignificandBits
MaxSignificand == Pow2(SignificandBits)

\* the unit in the last place of a number of magnitude m, from u upwards
RECURSIVE UlpFrom(_, _)
UlpFrom(m, u) == IF m < MaxSignificand * u THEN u ELSE UlpFrom(m, 2 * u)

\* the significand nearest to q + r/u, ties to the even one
RoundQuotient(q, r, u) ==
  IF 2 * r < u THEN q
  ELSE IF 2 * r > u THEN q + 1
  ELSE IF q % 2 = 0 THEN q ELSE q + 1

\* the multiple of u nearest to the magnitude m
RoundToUlp(m, u) == RoundQuotient(m \div u, m % u, u) * u

\* the sign of v
Sign(v) == IF v < 0 THEN -1 ELSE 1

\* the floating-point number nearest to v, ties to the even significand
Fl(v) == Sign(v) * RoundToUlp(Abs(v), UlpFrom(Abs(v), 1))

\* a + b, a - b and a * b of the source
Add(a, b) == Fl(a + b)

Sub(a, b) == Fl(a - b)

Mul(a, b) == Fl(a * b)

\* a call that returned v
Returned(v) == [threw |-> "none", value |-> v]

\* a call that threw an Error of kind k
Thrown(k) == [threw |-> k, value |-> <<>>]

----------------------------------------------------------------------------
\* COORDINATE CONVERSION FUNCTIONS (generate-svg.js)

\* one iteration of the switch of turtleToCorners; the caller has checked
\* the direction
MoveTurtle(p, segment) ==
  CASE segment.direction = "north" -> Pt(p.x, Sub(p.y, segment.length))
    [] segment.direction = "south" -> Pt(p.x, Add(p.y, segment.length))
    [] segment.direction = "east"  -> Pt(Add(p.x, segment.length), p.y)
    [] segment.direction = "west"  -> Pt(Sub(p.x, segment.length), p.y)

\* the loop "for (const segment of segments)" of turtleToCorners: the
\* corners pushed, the turtle standing at p
RECURSIVE WalkTurtle(_, _)
RECURSIVE PushCorner(_, _)
WalkTurtle(p, segments) ==
  IF segments = <<>> THEN <<>>
  ELSE PushCorner(MoveTurtle(p, Head(segments)), Tail(segments))

\* corners.push({ x, y }), and the rest of the loop
PushCorner(q, segments) == <<q>> \o WalkTurtle(q, segments)

\* mutant: the closing duplicate of start is kept
turtleToCorners_KeepClosing(start, segments) ==
  IF \E i \in 1..Len(segments) : segments[i].direction \notin Directions
  THEN Thrown("InvalidDirection")
  ELSE Returned(<<Pt(start.x, start.y)>> \o WalkTurtle(start, segments))

\* the end of turtleToCorners: the last corner is removed if it closes the
\* shape
PopClosing(start, corners) ==
  IF /\ Within001(Sub(corners[Len(corners)].x, start.x))
     /\ Within001(Sub(corners[Len(corners)].y, start.y))
  THEN SubSeq(corners, 1, Len(corners) - 1)
  ELSE corners

turtleToCorners(start, segments) ==
  IF \E i \in 1..Len(segments) : segments[i].direction \notin Directions
  THEN Thrown("InvalidDirection")
  ELSE Returned(PopClosing(start, <<Pt(start.x, start.y)>> \o WalkTurtle(start, segments)))

\* the segment cornersToTurtle derives for the displacement (dx, dy), and
\* for the pair current -> next
SegmentOf(dx, dy) ==
  IF Within001(dx)
  THEN (IF dy > 0 THEN Seg("south", dy) ELSE Seg("north", -dy))
  ELSE IF Within001(dy)
  THEN (IF dx > 0 THEN Seg("east", dx) ELSE Seg("west", -dx))
  ELSE Seg("diagonal", 0)

SegmentBetween(current, next) ==
  SegmentOf(Sub(next.x, current.x), Sub(next.y, current.y))

NextIndex(i, n) == (i % n) + 1

\* the segments of the loop of cornersToTurtle, one for each corner
SegmentsOf(corners) ==
  [i \in 1..Len(corners) |-> SegmentBetween(corners[i], corners[NextIndex(i, Len(corners))])]

\* the throw of the loop of cornersToTurtle, or its return
SegmentsOrThrow(segments) ==
  IF \E i \in 1..Len(segments) : segments[i].direction = "diagonal"
  THEN Thrown("DiagonalMovement")
  ELSE Returned(segments)

\* mutant: the wrap-around pair last -> first is not examined
cornersToTurtle_NoWrapCheck(corners) ==
  IF \E i \in 1..(Len(corners) - 1) : SegmentsOf(corners)[i].direction = "diagonal"
  THEN Thrown("DiagonalMovement")
  ELSE Returned(SegmentsOf(corners))

cornersToTurtle(corners) == SegmentsOrThrow(SegmentsOf(corners))

----------------------------------------------------------------------------
\* Shapes (slab, closed wall, partition wall) as the JSON gives them.
\* An absent property and an empty list behave alike in the normalizer
\* (x && x.length > 0), so both are the empty sequence; start is a sequence
\* of at most one point.  form = "array" is the legacy wall given as a bare
\* array: its items are in elements and it has no properties of its own.

Shape(form, type, id, start, segments, corners, elements) ==
  [form |-> form, type |-> type, id |-> id, start |-> start,
   segments |-> segments, corners |-> corners, elements |-> elements]

\* a call that threw an Error of kind k, leaving the object it works on as v
ThrownWith(k, v) == [threw |-> k, value |-> v]

\* shape.corners = turtleToCorners(start, shape.segments); shape.start =
\* start: corners is the result of the call, and a throw leaves the shape
\* as it was
AssignCorners(shape, start, corners) ==
  IF corners.threw # "none"
  THEN ThrownWith(corners.threw, shape)
  ELSE Returned([shape EXCEPT !.corners = corners.value, !.start = <<start>>])

\* mutant of AssignCorners: corners given along with segments are kept
AssignCorners_KeepGiven(shape, start, corners) ==
  IF corners.threw # "none"
  THEN ThrownWith(corners.threw, shape)
  ELSE Returned([shape EXCEPT !.corners = IF Len(shape.corners) > 0
                                          THEN shape.corners ELSE corners.value,
                              !.start = <<start>>])

\* shape.segments = cornersToTurtle(shape.corners); shape.start =
\* shape.corners[0]: segments is the result of the call
AssignSegments(shape, segments) ==
  IF segments.threw # "none"
  THEN ThrownWith(segments.threw, shape)
  ELSE Returned([shape EXCEPT !.segments = segments.value,
                              !.start = <<shape.corners[1]>>])

\* the start the segments are replayed from: start, else corners[0]
StartFor(shape) == IF shape.start # <<>> THEN shape.start[1] ELSE shape.corners[1]

\* normalizeSlabShape; value is the slab after the call
normalizeSlabShape(slab) ==
  IF Len(slab.segments) > 0
  THEN IF slab.start = <<>> /\ Len(slab.corners) = 0
       THEN ThrownWith("MissingStartPosition", slab)
       ELSE AssignCorners(slab, StartFor(slab), turtleToCorners(StartFor(slab), slab.segments))
  ELSE IF Len(slab.corners) > 0
  THEN AssignSegments(slab, cornersToTurtle(slab.corners))
  ELSE ThrownWith("ShapeUnderspecified", slab)

\* mutant: corners given along with segments are kept as given
normalizeClosedWall_KeepsCorners(wall) ==
  IF Len(wall.segments) > 0
  THEN IF wall.start = <<>> /\ Len(wall.corners) = 0
       THEN ThrownWith("MissingStartPosition", wall)
       ELSE AssignCorners_KeepGiven(wall, StartFor(wall),
                                    turtleToCorners(StartFor(wall), wall.segments))
  ELSE IF Len(wall.corners) > 0
  THEN AssignSegments(wall, cornersToTurtle(wall.corners))
  ELSE ThrownWith("ShapeUnderspecified", wall)

\* the start of the mutant below
StartOrOrigin(shape) ==
  IF shape.start # <<>> THEN shape.start[1]
  ELSE IF Len(shape.corners) > 0 THEN shape.corners[1] ELSE Pt(0, 0)

\* mutant: a wall with segments but no start and no corners starts at the
\* origin
normalizeClosedWall_OriginStart(wall) ==
  IF Len(wall.segments) > 0
  THEN AssignCorners(wall, StartOrOrigin(wall),
                     turtleToCorners(StartOrOrigin(wall), wall.segments))
  ELSE IF Len(wall.corners) > 0
  THEN AssignSegments(wall, cornersToTurtle(wall.corners))
  ELSE ThrownWith("ShapeUnderspecified", wall)

\* normalizeClosedWall; value is the wall after the call
normalizeClosedWall(wall) ==
  IF Len(wall.segments) > 0
  THEN IF wall.start = <<>> /\ Len(wall.corners) = 0
       THEN ThrownWith("MissingStartPosition", wall)
       ELSE AssignCorners(wall, StartFor(wall), turtleToCorners(StartFor(wall), wall.segments))
  ELSE IF Len(wall.corners) > 0
  THEN AssignSegments(wall, cornersToTurtle(wall.corners))
  ELSE ThrownWith("ShapeUnderspecified", wall)

ClosedWallTypes == {"slabPerimeter", "perimeter"}

\* slab.walls.forEach of the v2 branch: walls from index i on, stopping at
\* the first throw; value is the walls array as the loop leaves it
RECURSIVE NormalizeWallsFrom(_, _)
RECURSIVE NormalizedWall(_, _, _)
NormalizeWallsFrom(walls, i) ==
  IF i > Len(walls) THEN Returned(walls)
  ELSE IF walls[i].type \in ClosedWallTypes
  THEN NormalizedWall(walls, i, normalizeClosedWall(walls[i]))
  ELSE NormalizeWallsFrom(walls, i + 1)

\* one closed wall of the loop: r is what normalizeClosedWall did to it
NormalizedWall(walls, i, r) ==
  IF r.threw # "none"
  THEN ThrownWith(r.threw, walls)
  ELSE NormalizeWallsFrom([walls EXCEPT ![i] = r.value], i + 1)

\* the specification with its walls as the normalizer leaves them, and the
\* Error it threw
WithWalls(spec, walls) == [threw |-> walls.threw, value |-> [spec EXCEPT !.walls = walls.value]]

\* the v1 walls object as normalizeClosedWall leaves it
SingleWall(wall) == [threw |-> wall.threw, value |-> <<wall.value>>]

\* normalizeClosedShapes after the slab: the walls
NormalizeWalls(spec) ==
  IF spec.isV2
  THEN WithWalls(spec, NormalizeWallsFrom(spec.walls, 1))
  ELSE IF Len(spec.walls) > 0
  THEN WithWalls(spec, SingleWall(normalizeClosedWall(spec.walls[1])))
  ELSE Returned(spec)

\* normalizeClosedShapes from the slab on: slab is what normalizeSlabShape
\* did to spec.slab
NormalizeFromSlab(spec, slab) ==
  IF slab.threw # "none"
  THEN ThrownWith(slab.threw, spec)
  ELSE NormalizeWalls([spec EXCEPT !.slab = slab.value])

\* normalizeClosedShapes; value is the specification after the call.
\* spec.slab is slabs[0] and spec.walls is slabs[0].walls when isV2; in the
\* v1 format walls holds the walls property when present (0 or 1 entries).
normalizeClosedShapes(spec) == NormalizeFromSlab(spec, normalizeSlabShape(spec.slab))

----------------------------------------------------------------------------
\* Corner classification and closed walls (generate-svg.js)

PrevIndex(i, n) == ((i + n - 2) % n) + 1

\* the ternary chain of inferCornerType for the move a -> b
DirectionOfMove(a, b) ==
  IF b.x > a.x THEN "East"
  ELSE IF b.x < a.x THEN "West"
  ELSE IF b.y > a.y THEN "South" ELSE "North"

exteriorCornerMap(key) ==
  CASE key = <<"East", "South">> -> "NE"
    [] key = <<"South", "West">> -> "SE"
    [] key = <<"West", "North">> -> "SW"
    [] key = <<"North", "East">> -> "NW"
    [] OTHER -> "NW"

interiorCornerMap(key) ==
  CASE key = <<"East", "North">> -> "SE"
    [] key = <<"North", "West">> -> "NE"
    [] key = <<"West", "South">> -> "NW"
    [] key = <<"South", "East">> -> "SW"
    [] OTHER -> "NW"

\* the direction pairs the two lookup tables have an entry for
ExteriorKeys == {<<"East", "South">>, <<"South", "West">>, <<"West", "North">>, <<"North", "East">>}

InteriorKeys == {<<"East", "North">>, <<"North", "West">>, <<"West", "South">>, <<"South", "East">>}

\* the (incoming, outgoing) key of inferCornerType at a 1-based index
DirectionKey(corners, index) ==
  <<DirectionOfMove(corners[PrevIndex(index, Len(corners))], corners[index]),
    DirectionOfMove(corners[index], corners[NextIndex(index, Len(corners))])>>

\* index is 1-based here: the source's index 0 is index 1
inferCornerType(corners, index, isInterior) ==
  IF index = 1 THEN "NW"
  ELSE LET n       == Len(corners)
           prev    == corners[PrevIndex(index, n)]
           current == corners[index]
           next    == corners[NextIndex(index, n)]
           key     == <<DirectionOfMove(prev, current), DirectionOfMove(current, next)>>
       IN  IF isInterior THEN interiorCornerMap(key) ELSE exteriorCornerMap(key)

\* mutant: the sign of the cross product read the other way round
isInteriorCorner_PositiveCross(corners, index) ==
  LET n       == Len(corners)
      prev    == corners[PrevIndex(index, n)]
      current == corners[index]
      next    == corners[NextIndex(index, n)]
      v1x     == Sub(current.x, prev.x)
      v1y     == Sub(current.y, prev.y)
      v2x     == Sub(next.x, current.x)
      v2y     == Sub(next.y, current.y)
      cross   == Sub(Mul(v1x, v2y), Mul(v1y, v2x))
  IN  cross > 0

isInteriorCorner(corners, index) ==
  LET n       == Len(corners)
      prev    == corners[PrevIndex(index, n)]
      current == corners[index]
      next    == corners[NextIndex(index, n)]
      v1x     == Sub(current.x, prev.x)
      v1y     == Sub(current.y, prev.y)
      v2x     == Sub(next.x, current.x)
      v2y     == Sub(next.y, current.y)
      cross   == Sub(Mul(v1x, v2y), Mul(v1y, v2x))
  IN  cross < 0

getInteriorPoint(x, y, type, isInterior) ==
  LET e == CASE type = "NW" -> Pt(1, 1)   [] type = "NE" -> Pt(-1, 1)
             [] type = "SE" -> Pt(-1, -1) [] type = "SW" -> Pt(1, -1)
      i == CASE type = "NW" -> Pt(-1, -1) [] type = "NE" -> Pt(1, -1)
             [] type = "SE" -> Pt(1, 1)   [] type = "SW" -> Pt(-1, 1)
      offset == IF isInterior THEN i ELSE e
  IN  Pt(Add(x, offset.x * Foot), Add(y, offset.y * Foot))

\* mutant: every bracket is placed at its corner, with no offset
getCornerPosition_NoOffset(x, y, type, isInterior) == Pt(x, y)

getCornerPosition(x, y, type, isInterior) ==
  LET e == CASE type = "NW" -> Pt(0, 0)   [] type = "NE" -> Pt(-1, 0)
             [] type = "SE" -> Pt(-1, -1) [] type = "SW" -> Pt(0, -1)
      i == CASE type = "NW" -> Pt(-1, -1) [] type = "NE" -> Pt(0, -1)
             [] type = "SE" -> Pt(0, 0)   [] type = "SW" -> Pt(-1, 0)
      offset == IF isInterior THEN i ELSE e
  IN  Pt(Add(x, offset.x * Foot), Add(y, offset.y * Foot))

\* corners.map(...) of generateWalls
cornerData(corners) ==
  [index \in 1..Len(corners) |->
    LET x             == corners[index].x
        y             == corners[index].y
        isInterior    == isInteriorCorner(corners, index)
        type          == inferCornerType(corners, index, isInterior)
        position      == getCornerPosition(x, y, type, isInterior)
        interiorPoint == getInteriorPoint(x, y, type, isInterior)
    IN  [slabX |-> x, slabY |-> y, type |-> type, isInterior |-> isInterior,
         pieceX |-> position.x, pieceY |-> position.y,
         interiorX |-> interiorPoint.x, interiorY |-> interiorPoint.y]]

Min(a, b) == IF a < b THEN a ELSE b

Max(a, b) == IF a > b THEN a ELSE b

\* generateHorizontalWall / generateVerticalWall: the <g> of one straight run
WallPiece(kind, x, y, length) == [kind |-> kind, x |-> x, y |-> y, length |-> length]

\* body of the loop "walls between consecutive corners": the pieces (0 or 1)
\* emitted for the pair current -> next
WallBetween(current, next) ==
  LET c1 == Pt(current.pieceX, current.pieceY)
      c2 == Pt(next.pieceX, next.pieceY)
  IN  IF c1.y = c2.y
      THEN LET wallStart  == Add(Min(c1.x, c2.x), Foot)
               wallEnd    == Max(c1.x, c2.x)
               wallLength == Sub(wallEnd, wallStart)
           IN  IF wallLength > 0
               THEN <<WallPiece("h", wallStart, c1.y, wallLength)>> ELSE <<>>
      ELSE IF c1.x = c2.x
      THEN LET wallStart  == Add(Min(c1.y, c2.y), Foot)
               wallEnd    == Max(c1.y, c2.y)
               wallLength == Sub(wallEnd, wallStart)
           IN  IF wallLength > 0
               THEN <<WallPiece("v", c1.x, wallStart, wallLength)>> ELSE <<>>
      ELSE <<>>

\* the loop itself: runs in emission order, so that a run's position in the
\* sequence is its segmentIndex
RECURSIVE WallsFrom(_, _)
WallsFrom(data, i) ==
  IF i > Len(data) THEN <<>>
  ELSE WallBetween(data[i], data[NextIndex(i, Len(data))]) \o WallsFrom(data, i + 1)

\* mutant: no template for the NW bracket
cornerTemplates_NoNW == {"NE", "SE", "SW"}

\* the keys of cornerTemplates
cornerTemplates == {"NE", "NW", "SE", "SW"}

\* cornerData.forEach: a bracket for every entry whose type has a template;
\* index is the number in the bracket's id (`${wallName}_corner${index}`),
\* counted from 1 here
RECURSIVE BracketsFrom(_, _)
BracketsFrom(data, index) ==
  IF index > Len(data) THEN <<>>
  ELSE (IF data[index].type \in cornerTemplates
        THEN <<[type |-> data[index].type, x |-> data[index].pieceX,
                y |-> data[index].pieceY, index |-> index]>>
        ELSE <<>>)
       \o BracketsFrom(data, index + 1)

\* generateWalls: the corner brackets, then the straight runs
generateWalls(wallStructure) ==
  LET corners == IF wallStructure.form = "array"
                 THEN wallStructure.elements ELSE wallStructure.corners
      data    == cornerData(corners)
  IN  [wallName |-> IF wallStructure.id = "" THEN "perimeter" ELSE wallStructure.id,
       brackets |-> BracketsFrom(data, 1),
       runs     |-> WallsFrom(data, 1)]

----------------------------------------------------------------------------
\* Partition walls (generate-svg.js)

\* mutant: the end-cap takes a whole foot of the run
Half_WholeFoot == Foot

Half == Foot \div 2

\* the switch of convertTurtleToPoints: it has no default case, so a
\* direction it does not know leaves the position where it is
MovePoint(p, segment) ==
  CASE segment.direction = "north" -> Pt(p.x, Sub(p.y, segment.length))
    [] segment.direction = "south" -> Pt(p.x, Add(p.y, segment.length))
    [] segment.direction = "east"  -> Pt(Add(p.x, segment.length), p.y)
    [] segment.direction = "west"  -> Pt(Sub(p.x, segment.length), p.y)
    [] OTHER -> p

RECURSIVE WalkPoints(_, _)
WalkPoints(p, segments) ==
  IF segments = <<>> THEN <<>>
  ELSE LET q == MovePoint(p, Head(segments))
       IN  <<q>> \o WalkPoints(q, Tail(segments))

\* convertTurtleToPoints (the direction annotations of the points are not
\* read by the caller and are left out)
convertTurtleToPoints(partitionWall) ==
  <<Pt(partitionWall.start[1].x, partitionWall.start[1].y)>>
    \o WalkPoints(partitionWall.start[1], partitionWall.segments)

getCornerTypeFromDirections(fromDir, toDir) ==
  LET key == <<fromDir, toDir>>
  IN  CASE key = <<"east", "south">> -> "NE"
        [] key = <<"south", "west">> -> "SE"
        [] key = <<"west", "north">> -> "SW"
        [] key = <<"north", "east">> -> "NW"
        [] key = <<"east", "north">> -> "SE"
        [] key = <<"north", "west">> -> "NE"
        [] key = <<"west", "south">> -> "NW"
        [] key = <<"south", "east">> -> "SW"
        [] OTHER -> "NW"

\* generateNorthEndcap .. generateWestEndcap: the <g> of one end-cap
EndcapPiece(dir, x, y) == [kind |-> "endcap", dir |-> dir, x |-> x, y |-> y]

\* cornerTemplates[type](x, y): the <g> of one corner bracket
CornerPiece(type, x, y) == [kind |-> "corner", type |-> type, x |-> x, y |-> y]

\* mutant: every end-cap is placed at the point itself
EndcapFacing_NoOffset(dir, x, y) ==
  IF dir \in Directions THEN <<EndcapPiece(dir, x, y)>> ELSE <<>>

\* the if/else-if chain that places an end-cap facing dir at (x, y)
EndcapFacing(dir, x, y) ==
  CASE dir = "north" -> <<EndcapPiece("north", x, y)>>
    [] dir = "south" -> <<EndcapPiece("south", x, Sub(y, Half))>>
    [] dir = "east"  -> <<EndcapPiece("east", Sub(x, Half), y)>>
    [] dir = "west"  -> <<EndcapPiece("west", x, y)>>
    [] OTHER -> <<>>

OppositeDir(dir) ==
  CASE dir = "north" -> "south"
    [] dir = "south" -> "north"
    [] dir = "east"  -> "west"
    [] dir = "west"  -> "east"
    [] OTHER -> "undefined"

\* the piece placed at point i (0-based, as in the source): start end-cap,
\* end end-cap or corner bracket
PartitionMarker(partition, points, i) ==
  LET segments == partition.segments
      n        == Len(segments)
      point    == points[i + 1]
  IN  IF i = 0
      THEN EndcapFacing(OppositeDir(segments[1].direction), point.x, point.y)
      ELSE IF i = Len(points) - 1
      THEN LET dir            == segments[n].direction
               isMultiSegment == n > 1
               prevDir        == IF isMultiSegment THEN segments[n - 1].direction ELSE "null"
               adjust         ==
                 IF ~isMultiSegment THEN Pt(0, 0)
                 ELSE IF dir = "north" /\ prevDir = "east" THEN Pt(-Foot, Foot)
                 ELSE IF dir = "north" THEN Pt(0, Foot)
                 ELSE IF dir = "south" /\ prevDir = "east" THEN Pt(-Foot, 0)
                 ELSE IF dir = "west" /\ prevDir = "north" THEN Pt(Foot, 0)
                 ELSE IF dir = "east" /\ prevDir = "south" THEN Pt(0, -Foot)
                 ELSE IF dir = "west" /\ prevDir = "south" THEN Pt(Foot, -Foot)
                 ELSE Pt(0, 0)
           IN  EndcapFacing(dir, Add(point.x, adjust.x), Add(point.y, adjust.y))
      ELSE LET prevDir    == segments[i].direction
               nextDir    == segments[i + 1].direction
               cornerType == getCornerTypeFromDirections(prevDir, nextDir)
               cornerX    == IF prevDir = "east" THEN Sub(point.x, Foot) ELSE point.x
               cornerY    == IF prevDir = "south" THEN Sub(point.y, Foot) ELSE point.y
           IN  <<CornerPiece(cornerType, cornerX, cornerY)>>

\* "Generate wall segment to next point" for point i (0-based), i < last
PartitionRun(partition, points, i) ==
  LET current         == points[i + 1]
      next            == points[i + 2]
      isFirstSegment  == (i = 0)
      isLastSegment   == (i = Len(points) - 2)
      isSingleSegment == isFirstSegment /\ isLastSegment
      prevDir         == IF i > 0 THEN partition.segments[i].direction ELSE "null"
      currentX        == IF prevDir = "east" THEN Sub(current.x, Foot) ELSE current.x
      currentY        == IF prevDir = "south" THEN Sub(current.y, Foot) ELSE current.y
  IN  IF current.y = next.y
      THEN LET leftX     == Min(currentX, next.x)
               rightX    == Max(currentX, next.x)
               goingEast == next.x > currentX
               wallStart ==
                 IF isSingleSegment THEN Add(leftX, Half)
                 ELSE IF isFirstSegment THEN (IF goingEast THEN Add(leftX, Half) ELSE Add(leftX, Foot))
                 ELSE IF isLastSegment THEN (IF goingEast THEN Add(leftX, Foot) ELSE Add(leftX, Foot + Half))
                 ELSE Add(leftX, Foot)
               wallEnd ==
                 IF isSingleSegment THEN Sub(rightX, Half)
                 ELSE IF isFirstSegment THEN (IF goingEast THEN Sub(rightX, Foot) ELSE Sub(rightX, Half))
                 ELSE IF isLastSegment THEN (IF goingEast THEN Sub(rightX, Half) ELSE rightX)
                 ELSE rightX
               wallLength == Sub(wallEnd, wallStart)
           IN  IF wallLength > 0
               THEN <<WallPiece("h", wallStart, currentY, wallLength)>> ELSE <<>>
      ELSE IF current.x = next.x
      THEN LET topY       == Min(currentY, next.y)
               bottomY    == Max(currentY, next.y)
               goingSouth == next.y > currentY
               wallStart ==
                 IF isSingleSegment THEN Add(topY, Half)
                 ELSE IF isFirstSegment THEN (IF goingSouth THEN Add(topY, Half) ELSE Add(topY, Foot))
                 ELSE IF isLastSegment THEN (IF goingSouth THEN Add(topY, Foot) ELSE Add(topY, Foot + Half))
                 ELSE Add(topY, Foot)
               wallEnd ==
                 IF isSingleSegment THEN Sub(bottomY, Half)
                 ELSE IF isFirstSegment THEN (IF goingSouth THEN Sub(bottomY, Foot) ELSE Sub(bottomY, Half))
                 ELSE IF isLastSegment THEN (IF goingSouth THEN Sub(bottomY, Half) ELSE bottomY)
                 ELSE bottomY
               wallLength == Sub(wallEnd, wallStart)
           IN  IF wallLength > 0
               THEN <<WallPiece("v", currentX, wallStart, wallLength)>> ELSE <<>>
      ELSE <<>>

RECURSIVE PartitionPiecesFrom(_, _, _)
PartitionPiecesFrom(partition, points, i) ==
  IF i > Len(points) - 1 THEN <<>>
  ELSE PartitionMarker(partition, points, i)
         \o (IF i < Len(points) - 1 THEN PartitionRun(partition, points, i) ELSE <<>>)
         \o PartitionPiecesFrom(partition, points, i + 1)

\* generatePartitionWalls: per partition, its pieces in emission order.
\* A partition with no segment makes segments[0].direction a TypeError.
generatePartitionWalls(partitionWalls) ==
  IF \E k \in 1..Len(partitionWalls) :
       partitionWalls[k].segments = <<>> \/ partitionWalls[k].start = <<>>
  THEN Thrown("TypeError")
  ELSE Returned([k \in 1..Len(partitionWalls) |->
         [wallName |-> IF partitionWalls[k].id = "" THEN "unnamed" ELSE partitionWalls[k].id,
          pieces   |-> PartitionPiecesFrom(partitionWalls[k],
                                           convertTurtleToPoints(partitionWalls[k]), 0)]])

----------------------------------------------------------------------------
\* Wall meshes with door cutouts (part_006, ModelTBuilder)

\* new BABYLON.Vector3(x, 0, z): a point of a wall profile, x along the
\* segment and z up
Vector3(x, z) == [x |-> x, z |-> z]

\* Math.abs(d) < 0.1
LessThanTenth(d) == Abs(d) * 10 < Foot

\* `${slabId}_${wall.id}`; a wallId is kept as the list of its parts
QualifiedId(slabId, id) == <<slabId, id>>

findDoorsOnSegment(doors, p1, p2, isHorizontal, isVertical) ==
  LET tolerance == 5 * Foot
  IN  SelectSeq(doors, LAMBDA door :
        IF isHorizontal
        THEN /\ Abs(Sub(door.y, p1.y)) < tolerance
             /\ door.x >= Sub(Min(p1.x, p2.x), tolerance)
             /\ door.x <= Add(Max(p1.x, p2.x), tolerance)
        ELSE IF isVertical
        THEN /\ Abs(Sub(door.x, p1.x)) < tolerance
             /\ door.y >= Sub(Min(p1.y, p2.y), tolerance)
             /\ door.y <= Add(Max(p1.y, p2.y), tolerance)
        ELSE FALSE)

\* posA / posB of the sort, doorPos of the loop: the distance of the door
\* from p1 along the segment
DoorPosition(door, p1, isHorizontal) ==
  IF isHorizontal THEN Abs(Sub(door.x, p1.x)) ELSE Abs(Sub(door.y, p1.y))

\* doors.slice().sort(...): a stable sort by position along the segment
RECURSIVE SortDoors(_, _, _)
SortDoors(doors, p1, isHorizontal) ==
  IF doors = <<>> THEN <<>>
  ELSE LET n      == Len(doors)
           door   == doors[n]
           sorted == SortDoors(SubSeq(doors, 1, n - 1), p1, isHorizontal)
           k      == Cardinality({i \in 1..(n - 1) :
                       DoorPosition(sorted[i], p1, isHorizontal)
                         <= DoorPosition(door, p1, isHorizontal)})
       IN  SubSeq(sorted, 1, k) \o <<door>> \o SubSeq(sorted, k + 1, n - 1)

\* mutant: the floor is never traced up to the door
RECURSIVE TraceDoors_NoFloor(_, _, _, _)
TraceDoors_NoFloor(sortedDoors, p1, isHorizontal, currentPos) ==
  IF sortedDoors = <<>> THEN <<>>
  ELSE LET doorHeight == 10 * Foot
           door       == Head(sortedDoors)
           doorPos    == DoorPosition(door, p1, isHorizontal)
           doorWidth  == IF door.bayWidth # 0 THEN door.bayWidth ELSE 10 * Foot
           doorStart  == Sub(doorPos, doorWidth \div 2)
           doorEnd    == Add(doorPos, doorWidth \div 2)
       IN  <<Vector3(doorStart, doorHeight), Vector3(doorEnd, doorHeight),
             Vector3(doorEnd, 0)>>
             \o TraceDoors_NoFloor(Tail(sortedDoors), p1, isHorizontal, doorEnd)

\* the loop "for (const door of sortedDoors)" of generateWallProfileWithDoors:
\* the points it pushes.  A bayWidth that is absent is 0 here; widths are
\* even numbers of units, so that halving them is exact as it is in the
\* source; 0.1 ft is not a whole number of units and the test against it is
\* made on the exact difference.
RECURSIVE TraceDoors(_, _, _, _)
TraceDoors(sortedDoors, p1, isHorizontal, currentPos) ==
  IF sortedDoors = <<>> THEN <<>>
  ELSE LET doorHeight == 10 * Foot
           door       == Head(sortedDoors)
           doorPos    == DoorPosition(door, p1, isHorizontal)
           doorWidth  == IF door.bayWidth # 0 THEN door.bayWidth ELSE 10 * Foot
           doorStart  == Sub(doorPos, doorWidth \div 2)
           doorEnd    == Add(doorPos, doorWidth \div 2)
       IN  (IF (doorStart - currentPos) * 10 > Foot
            THEN <<Vector3(doorStart, 0)>> ELSE <<>>)
             \o <<Vector3(doorStart, doorHeight), Vector3(doorEnd, doorHeight),
                  Vector3(doorEnd, 0)>>
             \o TraceDoors(Tail(sortedDoors), p1, isHorizontal, doorEnd)

generateWallProfileWithDoors(p1, p2, segmentLength, wallHeight, doors, isHorizontal, isVertical) ==
  LET sortedDoors == SortDoors(doors, p1, isHorizontal)
  IN  <<Vector3(0, 0)>>
        \o TraceDoors(sortedDoors, p1, isHorizontal, 0)
        \o <<Vector3(segmentLength, 0), Vector3(segmentLength, wallHeight),
             Vector3(0, wallHeight), Vector3(0, 0)>>

\* createSimplePartitionSegment: the box pushed to meshes.partitionWalls
SimpleSegment(segIndex, p1, length, wallHeight) ==
  [kind |-> "box", segIndex |-> segIndex, p1 |-> p1, length |-> length,
   height |-> wallHeight, profile |-> <<>>]

\* createWallSegmentWithDoors: the extruded profile pushed to
\* meshes.partitionWalls (a profile is never empty, so the fallback to the
\* simple wall is not taken)
ExtrudedSegment(segIndex, p1, length, wallHeight, profile) ==
  [kind |-> "extruded", segIndex |-> segIndex, p1 |-> p1, length |-> length,
   height |-> wallHeight, profile |-> profile]

\* the switch of buildPartitionWallMesh that places p2: it has no default
\* case
SegmentEnd(current, segment) ==
  CASE segment.direction = "east"  -> Pt(Add(current.x, segment.length), current.y)
    [] segment.direction = "west"  -> Pt(Sub(current.x, segment.length), current.y)
    [] segment.direction = "south" -> Pt(current.x, Add(current.y, segment.length))
    [] segment.direction = "north" -> Pt(current.x, Sub(current.y, segment.length))
    [] OTHER -> current

\* wall.segments.forEach of buildPartitionWallMesh, from segment segIdx
\* (1-based) on
RECURSIVE BuildSegmentsFrom(_, _, _, _)
BuildSegmentsFrom(segments, wallDoors, segIdx, current) ==
  IF segIdx > Len(segments) THEN <<>>
  ELSE LET wallHeight   == 15 * Foot
           length       == segments[segIdx].length
           p1           == current
           p2           == SegmentEnd(current, segments[segIdx])
           dx           == Sub(p2.x, p1.x)
           dy           == Sub(p2.y, p1.y)
           isHorizontal == LessThanTenth(dy)
           isVertical   == LessThanTenth(dx)
           segmentDoors == findDoorsOnSegment(wallDoors, p1, p2, isHorizontal, isVertical)
           mesh ==
             IF Len(segmentDoors) = 0
             THEN SimpleSegment(segIdx - 1, p1, length, wallHeight)
             ELSE ExtrudedSegment(segIdx - 1, p1, length, wallHeight,
                    generateWallProfileWithDoors(p1, p2, length, wallHeight, segmentDoors,
                                                 isHorizontal, isVertical))
       IN  <<mesh>> \o BuildSegmentsFrom(segments, wallDoors, segIdx + 1, p2)

\* buildPartitionWallMesh: the meshes it pushes
buildPartitionWallMesh(wall, slabId, doors) ==
  LET wallDoors == SelectSeq(doors, LAMBDA d :
                     d.wallId = <<wall.id>> \/ d.wallId = QualifiedId(slabId, wall.id))
  IN  BuildSegmentsFrom(wall.segments, wallDoors, 1, Pt(wall.start.x, wall.start.y))

----------------------------------------------------------------------------
\* Scene assembly (generate-svg.js).  The document is kept as its parts:
\* the viewBox, the slab path, the <g> groups of the walls and the embedded
\* JSON.  width and height are (viewBox size * 3.78).toFixed(1) and carry
\* nothing the viewBox does not.

RECURSIVE MinOf(_)
MinOf(S) ==
  LET e == CHOOSE v \in S : TRUE
  IN  IF S = {e} THEN e ELSE Min(e, MinOf(S \ {e}))

RECURSIVE MaxOf(_)
MaxOf(S) ==
  LET e == CHOOSE v \in S : TRUE
  IN  IF S = {e} THEN e ELSE Max(e, MaxOf(S \ {e}))

\* the viewBox computed from slab corners (no property.boundary is given)
ViewBoxOf(corners) ==
  LET allX == {corners[i].x : i \in 1..Len(corners)}
      allY == {corners[i].y : i \in 1..Len(corners)}
  IN  [minX |-> MinOf(allX), minY |-> MinOf(allY),
       viewBoxWidth |-> Sub(MaxOf(allX), MinOf(allX)),
       viewBoxHeight |-> Sub(MaxOf(allY), MinOf(allY))]

\* generateSlab: the points of the path
generateSlab(corners) == corners

WallsOfType(walls, t) == SelectSeq(walls, LAMBDA w : w.type = t)

MapGenerateWalls(walls) == [k \in 1..Len(walls) |-> generateWalls(walls[k])]

\* JSON.stringify of a shape: the members it writes.  A bare array is written
\* as its items; an absent property (start) or an empty list is written as
\* no member, which the code reads the same way (x && x.length > 0).
StringifyShape(shape) ==
  IF shape.form = "array"
  THEN [array |-> TRUE, items |-> shape.elements, members |-> {}]
  ELSE [array |-> FALSE, items |-> <<>>,
        members |->
          {<<"type", shape.type>>, <<"id", shape.id>>}
          \cup {<<"start", shape.start[k]>> : k \in 1..Len(shape.start)}
          \cup (IF Len(shape.segments) > 0 THEN {<<"segments", shape.segments>>} ELSE {})
          \cup (IF Len(shape.corners) > 0 THEN {<<"corners", shape.corners>>} ELSE {})]

\* the value of member key in the members written, or absent
Member(members, key, absent) ==
  IF \E m \in members : m[1] = key
  THEN (CHOOSE m \in members : m[1] = key)[2]
  ELSE absent

\* JSON.parse of a shape
ParseShape(text) ==
  IF text.array
  THEN Shape("array", "", "", <<>>, <<>>, <<>>, text.items)
  ELSE Shape("object",
             Member(text.members, "type", ""),
             Member(text.members, "id", ""),
             IF \E m \in text.members : m[1] = "start"
             THEN <<Member(text.members, "start", <<>>)>> ELSE <<>>,
             Member(text.members, "segments", <<>>),
             Member(text.members, "corners", <<>>),
             <<>>)

\* a door, camera or column of the specification: its id, the wall it
\* belongs to ("" when the member is absent) and its position
Component(id, wallId, x, y) == [id |-> id, wallId |-> wallId, x |-> x, y |-> y]

\* JSON.stringify of a door, camera or column: the members it writes
StringifyComponent(c) ==
  {<<"x", c.x>>, <<"y", c.y>>}
    \cup (IF c.id # "" THEN {<<"id", c.id>>} ELSE {})
    \cup (IF c.wallId # "" THEN {<<"wallId", c.wallId>>} ELSE {})

\* JSON.parse of a door, camera or column
ParseComponent(members) ==
  Component(Member(members, "id", ""), Member(members, "wallId", ""),
            Member(members, "x", 0), Member(members, "y", 0))

StringifyComponents(list) == [k \in 1..Len(list) |-> StringifyComponent(list[k])]

ParseComponents(texts) == [k \in 1..Len(texts) |-> ParseComponent(texts[k])]

\* const embeddedJSON = JSON.stringify(spec, null, 2)
embeddedJSON(spec) ==
  [slabs          |-> spec.isV2,
   slab           |-> StringifyShape(spec.slab),
   walls          |-> [k \in 1..Len(spec.walls) |-> StringifyShape(spec.walls[k])],
   partitionWalls |-> [k \in 1..Len(spec.partitionWalls) |->
                        StringifyShape(spec.partitionWalls[k])],
   doors          |-> StringifyComponents(spec.doors),
   cameras        |-> StringifyComponents(spec.cameras),
   columns        |-> StringifyComponents(spec.columns)]

\* mutant: only the slab is read back
parse_SlabOnly(svgDoc) ==
  [isV2 |-> svgDoc.json.slabs, slab |-> ParseShape(svgDoc.json.slab),
   walls |-> <<>>, partitionWalls |-> <<>>,
   doors |-> <<>>, cameras |-> <<>>, columns |-> <<>>]

\* ModelTParser.parse: JSON.parse of the text of the modelt-schema element
parse(svgDoc) ==
  LET text == svgDoc.json
  IN  [isV2           |-> text.slabs,
       slab           |-> ParseShape(text.slab),
       walls          |-> [k \in 1..Len(text.walls) |-> ParseShape(text.walls[k])],
       partitionWalls |-> [k \in 1..Len(text.partitionWalls) |->
                            ParseShape(text.partitionWalls[k])],
       doors          |-> ParseComponents(text.doors),
       cameras        |-> ParseComponents(text.cameras),
       columns        |-> ParseComponents(text.columns)]

\* generateDoors: the <g id="door_..."> of every door, at its position
generateDoors(doors) ==
  [index \in 1..Len(doors) |->
    [id |-> IF doors[index].id # "" THEN doors[index].id ELSE "opening_index",
     x |-> doors[index].x, y |-> doors[index].y]]

\* generateCameras: the <g class="camera"> of every camera
generateCameras(cameras) ==
  [k \in 1..Len(cameras) |->
    [id |-> IF cameras[k].id # "" THEN cameras[k].id ELSE "camera_undefined",
     x |-> cameras[k].x, y |-> cameras[k].y]]

\* generateColumns: the <g class="column"> of every column
generateColumns(columns) ==
  [k \in 1..Len(columns) |->
    [id |-> IF columns[k].id # "" THEN columns[k].id ELSE "column_undefined",
     x |-> columns[k].x, y |-> columns[k].y]]

\* generateModelTSVG_V1
generateModelTSVG_V1(spec) ==
  LET walls    == spec.walls
      hasWalls == /\ Len(walls) > 0
                  /\ \/ walls[1].form = "array" /\ Len(walls[1].elements) > 0
                     \/ walls[1].form = "object" /\ Len(walls[1].corners) > 0
      partitionWallsSVG == generatePartitionWalls(spec.partitionWalls)
  IN  IF partitionWallsSVG.threw # "none"
      THEN Thrown(partitionWallsSVG.threw)
      ELSE Returned([format     |-> "v1",
                     viewBox    |-> ViewBoxOf(spec.slab.corners),
                     slab       |-> generateSlab(spec.slab.corners),
                     walls      |-> IF hasWalls THEN <<generateWalls(walls[1])>> ELSE <<>>,
                     partitions |-> partitionWallsSVG.value,
                     doors      |-> generateDoors(spec.doors),
                     cameras    |-> generateCameras(spec.cameras),
                     columns    |-> generateColumns(spec.columns),
                     json       |-> embeddedJSON(spec)])

\* generateSlabSVG and generateModelTSVG for the v2 format (one slab, which
\* has no doors, cameras or columns of its own)
generateModelTSVG_V2(spec) ==
  LET walls        == spec.walls
      partitionSVG == generatePartitionWalls(WallsOfType(walls, "partition"))
  IN  IF partitionSVG.threw # "none"
      THEN Thrown(partitionSVG.threw)
      ELSE Returned([format     |-> "v2",
                     viewBox    |-> ViewBoxOf(spec.slab.corners),
                     slab       |-> generateSlab(spec.slab.corners),
                     walls      |-> MapGenerateWalls(WallsOfType(walls, "slabPerimeter"))
                                      \o MapGenerateWalls(WallsOfType(walls, "perimeter")),
                     partitions |-> partitionSVG.value,
                     doors      |-> <<>>,
                     cameras    |-> <<>>,
                     columns    |-> <<>>,
                     json       |-> embeddedJSON(spec)])

generateModelTSVG(spec) ==
  IF spec.isV2
  THEN generateModelTSVG_V2(spec)
  ELSE generateModelTSVG_V1(spec)

\* namingConventions.partitionWalls of NAMING_CONVENTIONS.json
PartitionWallNames == {"alice"}

\* namingConventions.doors, .cameras and .columns
DoorNames == {"lincoln"}

CameraNames == {"pizza"}

ColumnNames == {"oak"}

\* violations.push({ type, id, message })
Violation(type, id, message) == [type |-> type, id |-> id, message |-> message]

\* the forEach loops over partition walls, cameras and columns: a violation
\* for every id that is not in the list of valid names
InvalidNames(type, list, validNames) ==
  SelectSeq([k \in 1..Len(list) |-> Violation(type, list[k].id, "Invalid name")],
            LAMBDA v : v.id \notin validNames)

\* spec.doors.forEach: the violations of door k and of the doors after it
RECURSIVE DoorViolationsFrom(_, _)
DoorViolationsFrom(doors, k) ==
  IF k > Len(doors) THEN <<>>
  ELSE (IF doors[k].id \notin DoorNames
        THEN <<Violation("door", doors[k].id, "Invalid name")>> ELSE <<>>)
       \o (IF \E j \in 1..(k - 1) : doors[j].id = doors[k].id
           THEN <<Violation("door", doors[k].id, "Duplicate door ID")>> ELSE <<>>)
       \o (IF doors[k].wallId = ""
           THEN <<Violation("door", doors[k].id, "missing wallId")>> ELSE <<>>)
       \o DoorViolationsFrom(doors, k + 1)

\* mutant: a specification with violations is refused
validateWarehouseSpec_Fatal(s) ==
  IF InvalidNames("partitionWall", s.partitionWalls, PartitionWallNames)
       \o DoorViolationsFrom(s.doors, 1)
       \o InvalidNames("camera", s.cameras, CameraNames)
       \o InvalidNames("column", s.columns, ColumnNames) # <<>>
  THEN Thrown("ValidationError")
  ELSE Returned(<<>>)

\* validateWarehouseSpec: it returns the violations it found, in the order
\* partition walls, doors, cameras, columns; it has no throw statement and
\* assigns nothing in the specification
validateWarehouseSpec(s) ==
  Returned(InvalidNames("partitionWall", s.partitionWalls, PartitionWallNames)
             \o DoorViolationsFrom(s.doors, 1)
             \o InvalidNames("camera", s.cameras, CameraNames)
             \o InvalidNames("column", s.columns, ColumnNames))

----------------------------------------------------------------------------
\* Specification SpecTurtle: cornersToTurtle, then turtleToCorners, applied
\* to every corner list on a grid fine enough to straddle the tolerance.

\* a coordinate so far from the fine grid that its distance to an odd grid
\* coordinate is not a representable number
FarCoord == Pow2(SignificandBits) + 2

FinePoints == {Pt(px, py) : px \in {0, 1, MaxCoord, FarCoord}, py \in {0, 1, MaxCoord}}

\* no wall is being built
IdleCli ==
  /\ cliArgs = <<>>
  /\ cliOptions = <<>>
  /\ cliData = <<>>
  /\ cliFile = <<>>
  /\ cliFileBefore = <<>>
  /\ cliResult = <<>>
  /\ cpc = "idle"

IdleRect ==
  /\ grid = <<>>
  /\ rectangles = <<>>
  /\ zplBoxes = <<>>
  /\ rpc = "idle"

IdleZpl ==
  /\ zplArgs = <<>>
  /\ zplFiles = {}
  /\ zplExit = <<>>
  /\ zplMessage = ""
  /\ zpc = "idle"

IdleServer ==
  /\ folder = <<>>
  /\ specResponse = <<>>
  /\ svgResponse = <<>>

IdleWall ==
  /\ perimeter = <<>>
  /\ perimeterDoors = <<>>
  /\ wallSegments = <<>>
  /\ wpc = "idle"

IdleTools == IdleCli /\ IdleRect /\ IdleZpl /\ IdleServer /\ IdleWall

IdleRelay ==
  /\ clients = <<>>
  /\ readyState = <<>>
  /\ clientWarehouseId = <<>>
  /\ relayLog = <<>>

IdleMarks ==
  /\ markedPositions = <<>>
  /\ markLog = <<>>
  /\ markedResponse = <<>>

IdleQuery ==
  /\ qpc = "idle"
  /\ qArgs = <<>>
  /\ queryId = ""
  /\ qSent = <<>>
  /\ qReceived = <<>>
  /\ qResult = <<>>

IdleEditor ==
  /\ edData = <<>>
  /\ edLog = <<>>

IdleNet == IdleRelay /\ IdleMarks /\ IdleQuery /\ IdleEditor

IdleProfile ==
  /\ wallArg = <<>>
  /\ doorsArg = <<>>
  /\ meshes = <<>>
  /\ bpc = "idle"

\* main is not running
IdleMain ==
  /\ inputData = <<>>
  /\ warehouseSpec = <<>>
  /\ violations = <<>>
  /\ svg = <<>>
  /\ err = "none"
  /\ pc = "idle"
  /\ pass = 0
  /\ firstSvg = <<>>

InitTurtle ==
  /\ \E n \in 1..MaxCorners : polygon \in [1..n -> FinePoints]
  /\ turtle = Thrown("notcalled")
  /\ replayed = Thrown("notcalled")
  /\ tpc = "corners"
  /\ IdleMain
  /\ IdleProfile
  /\ IdleTools
  /\ IdleNet

ConvertCorners ==
  /\ tpc = "corners"
  /\ turtle' = cornersToTurtle(polygon)
  /\ tpc' = IF turtle'.threw = "none" THEN "segments" ELSE "failed"
  /\ UNCHANGED <<polygon, replayed>>
  /\ UNCHANGED varsMain
  /\ UNCHANGED varsProfile
  /\ UNCHANGED <<varsTools, varsNet>>

ReplayTurtle ==
  /\ tpc = "segments"
  /\ replayed' = turtleToCorners(polygon[1], turtle.value)
  /\ tpc' = "replayed"
  /\ UNCHANGED <<polygon, turtle>>
  /\ UNCHANGED varsMain
  /\ UNCHANGED varsProfile
  /\ UNCHANGED <<varsTools, varsNet>>

NextTurtle == ConvertCorners \/ ReplayTurtle

SpecTurtle == InitTurtle /\ [][NextTurtle]_vars

----------------------------------------------------------------------------
\* Specification Spec: main() of generate-svg.js, run on a specification
\* file and then run again on the JSON embedded in the SVG it wrote.

\* the conversion functions are not under test
IdleTurtle ==
  /\ polygon = <<>>
  /\ turtle = Thrown("notcalled")
  /\ replayed = Thrown("notcalled")
  /\ tpc = "idle"

RectLengths == {1} \cup {k * Half : k \in 1..MaxHalfFeet}

RectSegments(w, h) ==
  <<Seg("east", w), Seg("south", h), Seg("west", w), Seg("north", h)>>

RectCorners(x, y, w, h) ==
  <<Pt(x, y), Pt(x + w, y), Pt(x + w, y + h), Pt(x, y + h)>>

\* the list c started k places later, and c backwards
Rotated(c, k) == [i \in 1..Len(c) |-> c[((i + k - 1) % Len(c)) + 1]]

Reversed(c) == [i \in 1..Len(c) |-> c[Len(c) + 1 - i]]

\* rectangles as corner lists, from any corner, in either sense
RectCornerLists ==
  LET canonical == {RectCorners(Foot, 2 * Foot, w, h) : w, h \in RectLengths}
      turned    == {Rotated(c, k) : c \in canonical, k \in 0..3}
  IN  turned \cup {Reversed(c) : c \in turned}

\* an L-shaped hexagon (a 2 ft x 2 ft square with a 1 ft notch at its
\* south-east corner), from any corner, in either sense
NotchedCornerLists ==
  LET canonical == <<Pt(Foot, 2 * Foot), Pt(3 * Foot, 2 * Foot), Pt(3 * Foot, 3 * Foot),
                     Pt(2 * Foot, 3 * Foot), Pt(2 * Foot, 4 * Foot), Pt(Foot, 4 * Foot)>>
      turned    == {Rotated(canonical, k) : k \in 0..5}
  IN  turned \cup {Reversed(c) : c \in turned}

SegmentChoices == {Seg(d, l) : d \in Directions \cup {"up"}, l \in {1, 2 * Foot}}

GenericSegments == UNION {[1..n -> SegmentChoices] : n \in 1..MaxSegments}

FineCornerLists ==
  {<<Pt(0, 0)>> \o rest : rest \in UNION {[1..n -> FinePoints] : n \in 0..(MaxShapeCorners - 1)}}

\* a coordinate whose sum with a whole number of feet is not a
\* representable number (as 0.1 + 0.2 is not in the source's arithmetic)
OddCoord == Pow2(SignificandBits) - 1

StartChoices == {<<>>, <<Pt(0, 0)>>, <<Pt(Foot, 2 * Foot)>>, <<Pt(OddCoord, 2 * Foot)>>}

\* closed shapes as a specification file may give them: with segments (or
\* with nothing), with or without a start and corners
SegmentShapes ==
  {Shape("object", "", "", st, sg, c, <<>>) :
      st \in StartChoices,
      sg \in GenericSegments \cup {RectSegments(w, h) : w, h \in RectLengths} \cup {<<>>},
      c  \in {<<>>, <<Pt(0, Foot), Pt(Foot, Foot)>>}}

\* closed shapes given by their corners
CornerShapes ==
  {Shape("object", "", "", st, <<>>, c, <<>>) :
      st \in StartChoices, c \in FineCornerLists \cup RectCornerLists \cup NotchedCornerLists}

\* the legacy walls property: a bare array of corners
LegacyArrayWalls ==
  {Shape("array", "", "", <<>>, <<>>, <<>>, el) :
      el \in {<<>>} \cup {RectCorners(0, 0, w, h) : w, h \in RectLengths}}

\* open paths
PartitionInputs ==
  {Shape("object", "", id, <<Pt(Foot, Foot)>>, sg, <<>>, <<>>) :
      id \in {"alice", "p1"}, sg \in GenericSegments \cup {<<>>}}

DefaultSlab ==
  Shape("object", "", "", <<>>, <<>>, RectCorners(0, 0, 4 * Foot, 3 * Foot), <<>>)

\* the walls of a v2 slab
TypedWalls ==
  {Shape("object", type, "w", st, sg, c, <<>>) :
      type \in {"slabPerimeter", "perimeter", "partition", "other"},
      st \in {<<Pt(Foot, Foot)>>},
      sg \in {<<>>, RectSegments(2 * Foot, 3 * Foot), <<Seg("east", 2 * Foot), Seg("up", Foot)>>,
              <<Seg("east", 2 * Foot), Seg("south", 3 * Foot)>>},
      c  \in {<<>>, RectCorners(0, 0, 2 * Foot, 2 * Foot)}}

\* partition walls as turtle paths of one to MaxPartitionSegments segments,
\* in every direction, of a length too short for a run and of a longer one
PartitionSegmentChoices == {Seg(d, l) : d \in Directions, l \in {Foot, 3 * Foot}}

PartitionPaths ==
  {Shape("object", "", "alice", <<Pt(8 * Foot, 8 * Foot)>>, sg, <<>>, <<>>) :
      sg \in UNION {[1..n -> PartitionSegmentChoices] : n \in 1..MaxPartitionSegments}}

WarehouseSpec(isV2, slab, walls, partitionWalls) ==
  [isV2 |-> isV2, slab |-> slab, walls |-> walls, partitionWalls |-> partitionWalls,
   doors |-> <<>>, cameras |-> <<>>, columns |-> <<>>]

\* the doors, cameras and columns of a specification: names that are in
\* the lists and names that are not, doors with and without a wallId, the
\* same door id twice
DoorChoices == {Component(id, wallId, 2 * Foot, 0) : id \in {"lincoln", "d9"}, wallId \in {"", "walls"}}

DoorLists == UNION {[1..n -> DoorChoices] : n \in 0..MaxDoors}

CameraLists == {<<>>} \cup {<<Component(id, "", Foot, Foot)>> : id \in {"pizza", "cam1"}}

ColumnLists == {<<>>} \cup {<<Component(id, "", 2 * Foot, Foot)>> : id \in {"oak", "col1"}}

\* the default slab with doors, cameras and columns
WithComponents(doors, cameras, columns) ==
  [WarehouseSpec(FALSE, DefaultSlab, <<>>, <<>>) EXCEPT
     !.doors = doors, !.cameras = cameras, !.columns = columns]

\* a slab or a wall with nothing but, possibly, one segment
BareShapes ==
  {Shape("object", "", "", <<>>, sg, <<>>, <<>>) : sg \in {<<>>, <<Seg("east", Foot)>>}}

\* JSON.parse(inputData): a slab alone, the default slab with a walls
\* object or a walls array, a bare slab with a bare wall, the default slab
\* with a partition wall, a v2 slab with its walls
Init ==
  /\ \/ \E slab \in SegmentShapes : inputData = WarehouseSpec(FALSE, slab, <<>>, <<>>)
     \/ \E slab \in CornerShapes : inputData = WarehouseSpec(FALSE, slab, <<>>, <<>>)
     \/ \E wall \in SegmentShapes : inputData = WarehouseSpec(FALSE, DefaultSlab, <<wall>>, <<>>)
     \/ \E wall \in CornerShapes : inputData = WarehouseSpec(FALSE, DefaultSlab, <<wall>>, <<>>)
     \/ \E wall \in LegacyArrayWalls :
          inputData = WarehouseSpec(FALSE, DefaultSlab, <<wall>>, <<>>)
     \/ \E slab \in BareShapes, wall \in BareShapes :
          inputData = WarehouseSpec(FALSE, slab, <<wall>>, <<>>)
     \/ \E partition \in PartitionInputs :
          inputData = WarehouseSpec(FALSE, DefaultSlab, <<>>, <<partition>>)
     \/ \E partition \in PartitionPaths :
          inputData = WarehouseSpec(FALSE, DefaultSlab, <<>>, <<partition>>)
     \/ \E doors \in DoorLists, cameras \in CameraLists, columns \in ColumnLists :
          inputData = WithComponents(doors, cameras, columns)
     \/ \E n \in 1..MaxWalls : \E walls \in [1..n -> TypedWalls] :
          inputData = WarehouseSpec(TRUE, DefaultSlab, walls, <<>>)
  /\ warehouseSpec = inputData
  /\ violations = <<>>
  /\ svg = <<>>
  /\ err = "none"
  /\ pc = "parsed"
  /\ pass = 1
  /\ firstSvg = <<>>
  /\ IdleTurtle
  /\ IdleProfile
  /\ IdleTools
  /\ IdleNet

\* normalizeClosedShapes(warehouseSpec); an Error it throws ends the run
Normalize ==
  /\ pc = "parsed"
  /\ \E r \in {normalizeClosedShapes(warehouseSpec)} :
       /\ warehouseSpec' = r.value
       /\ err' = r.threw
       /\ pc' = IF r.threw = "none" THEN "normalized" ELSE "failed"
  /\ UNCHANGED <<inputData, violations, svg, pass, firstSvg>>
  /\ UNCHANGED varsTurtle
  /\ UNCHANGED varsProfile
  /\ UNCHANGED <<varsTools, varsNet>>

\* validateWarehouseSpec(warehouseSpec); main has no handler, so an Error
\* thrown here would end the run as one thrown anywhere else does
Validate ==
  /\ pc = "normalized"
  /\ \E r \in {validateWarehouseSpec(warehouseSpec)} :
       /\ violations' = r.value
       /\ err' = r.threw
       /\ pc' = IF r.threw = "none" THEN "validated" ELSE "failed"
  /\ UNCHANGED <<inputData, warehouseSpec, svg, pass, firstSvg>>
  /\ UNCHANGED varsTurtle
  /\ UNCHANGED varsProfile
  /\ UNCHANGED <<varsTools, varsNet>>

\* generateModelTSVG(warehouseSpec) and the write of its result
Generate ==
  /\ pc = "validated"
  /\ \E r \in {generateModelTSVG(warehouseSpec)} :
       /\ svg' = IF r.threw = "none" THEN <<r.value>> ELSE <<>>
       /\ err' = r.threw
       /\ pc' = IF r.threw = "none" THEN "written" ELSE "failed"
  /\ UNCHANGED <<inputData, warehouseSpec, violations, pass, firstSvg>>
  /\ UNCHANGED varsTurtle
  /\ UNCHANGED varsProfile
  /\ UNCHANGED <<varsTools, varsNet>>

\* ModelTParser.parse on the SVG written, and main() started on the result
ParseEmbedded ==
  /\ pc = "written"
  /\ pass = 1
  /\ warehouseSpec' = parse(svg[1])
  /\ firstSvg' = svg
  /\ svg' = <<>>
  /\ violations' = <<>>
  /\ pass' = 2
  /\ pc' = "parsed"
  /\ UNCHANGED <<inputData, err>>
  /\ UNCHANGED varsTurtle
  /\ UNCHANGED varsProfile
  /\ UNCHANGED <<varsTools, varsNet>>

Next == Normalize \/ Validate \/ Generate \/ ParseEmbedded

Spec == Init /\ [][Next]_vars

----------------------------------------------------------------------------
\* Specification SpecProfile: buildPartitionWallMesh called on a partition
\* wall and the doors of its slab.

\* the partition walls: one 20 ft run in each direction, and a wall that
\* turns
ProfileWalls ==
  {[id |-> "alice", start |-> Pt(0, 4 * Foot), segments |-> sg] :
     sg \in {<<Seg(d, 20 * Foot)>> : d \in Directions}
            \cup {<<Seg("east", 20 * Foot), Seg("south", 10 * Foot)>>}}

\* doors 10 ft west of the start, at the start and 10 ft east of it, at the
\* height of the start, with no bayWidth, 10 ft wide or nearly as wide as
\* the run, of this wall or of another
ProfileDoors ==
  {[wallId |-> id, x |-> dx, y |-> 4 * Foot, bayWidth |-> bw] :
     id \in {<<"alice">>, <<"mercury", "alice">>, <<"bob">>},
     dx \in {-(10 * Foot), 0, 10 * Foot},
     bw \in {0, 10 * Foot, 20 * Foot - 100}}

InitProfile ==
  /\ wallArg \in ProfileWalls
  /\ \E n \in 0..MaxDoors : doorsArg \in [1..n -> ProfileDoors]
  /\ meshes = <<>>
  /\ bpc = "ready"
  /\ IdleTurtle
  /\ IdleMain
  /\ IdleTools
  /\ IdleNet

BuildPartitionWallMesh ==
  /\ bpc = "ready"
  /\ meshes' = buildPartitionWallMesh(wallArg, "mercury", doorsArg)
  /\ bpc' = "built"
  /\ UNCHANGED <<wallArg, doorsArg>>
  /\ UNCHANGED varsTurtle
  /\ UNCHANGED varsMain
  /\ UNCHANGED <<varsTools, varsNet>>

NextProfile == BuildPartitionWallMesh

SpecProfile == InitProfile /\ [][NextProfile]_vars

----------------------------------------------------------------------------
\* modelt-cli.js add-door and ModelTEditor.addDoor

\* JavaScript values of the options and of the members of a door: a
\* number, a string, a boolean, undefined, or no member at all
Num(v) == [kind |-> "number", n |-> v, s |-> ""]

Str(v) == [kind |-> "string", n |-> 0, s |-> v]

Bool(b) == [kind |-> "boolean", n |-> IF b THEN 1 ELSE 0, s |-> ""]

Undefined == [kind |-> "undefined", n |-> 0, s |-> ""]

Absent == [kind |-> "absent", n |-> 0, s |-> ""]

\* a value that || replaces by its right-hand side
Falsy(v) ==
  \/ v.kind \in {"undefined", "absent"}
  \/ v.kind = "number" /\ v.n = 0
  \/ v.kind = "string" /\ v.s = ""
  \/ v.kind = "boolean" /\ v.n = 0

\* a || b
OrElse(a, b) == IF Falsy(a) THEN b ELSE a

\* the members of the spec object that add-door passes to addDoor
SpecKeys ==
  {"wallId", "x", "y", "type", "orientation", "facing",
   "openingWidth", "openingHeight", "bayWidth", "doorWidth", "width",
   "hardwareSide", "state",
   "hasDockSeal", "hasDockLeveler", "hasSafetyStriping", "dockSealWidth",
   "dockSealHeight", "levelerWidth", "levelerDepth",
   "housingHeight", "trackWidth",
   "frameWidth", "swingDirection", "hingePosition",
   "insulation", "slideDirection", "trackPosition",
   "hasPhysicalDoor"}

\* the option that add-door reads for a member of the spec object
OptionOf(k) == IF k = "wallId" THEN "wall" ELSE k

\* the option names read by add-door
OptionNames == {OptionOf(k) : k \in SpecKeys} \cup {"slab"}

\* the members a door object may have
DoorMembers == SpecKeys \cup {"id"}

\* the numbers written on the command line
OptionNumbers == {0, 3, 8, 10, 12, 104, 180, 400}

\* args[i].startsWith('--')
startsWithDashes(token) == token \in {"--" \o k : k \in OptionNames}

\* args[i].slice(2), of a token that starts with '--'
slice2(token) == CHOOSE k \in OptionNames : "--" \o k = token

\* isNaN(value), of a string
isNaN(token) == ~ \E v \in OptionNumbers : ToString(v) = token

\* parseFloat(value), of a string that is a number
parseFloat(token) == CHOOSE v \in OptionNumbers : ToString(v) = token

\* parseOptions: the loop from args[i] on, opts being the object built so
\* far; a token that does not start with '--' goes to opts._positional,
\* which add-door does not read
RECURSIVE parseOptionsFrom(_, _, _)
parseOptionsFrom(args, i, opts) ==
  IF i > Len(args) THEN opts
  ELSE IF startsWithDashes(args[i])
    THEN IF i + 1 <= Len(args) /\ ~ startsWithDashes(args[i + 1])
           THEN parseOptionsFrom(args, i + 2,
                  [opts EXCEPT ![slice2(args[i])] =
                     IF isNaN(args[i + 1]) THEN Str(args[i + 1])
                     ELSE Num(parseFloat(args[i + 1]))])
           ELSE parseOptionsFrom(args, i + 1,
                  [opts EXCEPT ![slice2(args[i])] = Bool(TRUE)])
    ELSE parseOptionsFrom(args, i + 1, opts)

\* parseOptions(args): the options read as members (undefined when not set)
parseOptions(args) == parseOptionsFrom(args, 1, [k \in OptionNames |-> Undefined])

\* the spec object add-door builds from the options
DoorSpec(options) == [k \in SpecKeys |-> options[OptionOf(k)]]

\* findSlab: the index of the slab, or the error thrown
findSlab(data, slabId) ==
  IF ~ data.hasSlabs THEN Thrown("No slabs array found in ModelT file")
  ELSE IF \E i \in 1..Len(data.slabs) : Str(data.slabs[i].id) = slabId
    THEN Returned(CHOOSE i \in 1..Len(data.slabs) :
                    /\ Str(data.slabs[i].id) = slabId
                    /\ \A j \in 1..(i - 1) : Str(data.slabs[j].id) # slabId)
    ELSE Thrown("Slab not found")

\* getAllDoors: the doors of the slabs from slab i on
RECURSIVE AllDoorsFrom(_, _)
AllDoorsFrom(slabs, i) ==
  IF i > Len(slabs) THEN <<>> ELSE slabs[i].doors \o AllDoorsFrom(slabs, i + 1)

getAllDoors(data) == IF data.hasSlabs THEN AllDoorsFrom(data.slabs, 1) ELSE <<>>

\* NameManager.getNextDoorName
getNextDoorName(doorNames, existingDoors) ==
  LET usedNames == {existingDoors[i]["id"] : i \in 1..Len(existingDoors)}
      free == {i \in 1..Len(doorNames) : Str(doorNames[i]) \notin usedNames}
  IN  IF free = {} THEN Thrown("No available door names remaining in DOOR_NAMES.txt")
      ELSE Returned(doorNames[CHOOSE i \in free : \A j \in free : i <= j])

\* addDoor: the door object built from the spec
NewDoor(id, spec) ==
  LET interior == spec["type"] = Str("interior") /\ ~ Falsy(spec["width"])
  IN  [k \in DoorMembers |->
         CASE k = "id" -> Str(id)
           [] k \in {"wallId", "x", "y", "facing"} -> spec[k]
           [] k = "bayWidth" -> IF interior THEN Absent ELSE OrElse(spec["bayWidth"], Num(10))
           [] k = "doorWidth" -> IF interior THEN Absent ELSE OrElse(spec["doorWidth"], Num(104))
           [] k = "type" -> OrElse(spec["type"], Str("bay"))
           [] k = "orientation" -> OrElse(spec["orientation"], Str("horizontal"))
           [] k = "width" -> IF interior THEN spec["width"] ELSE Absent
           [] OTHER -> Absent]

\* addDoor(slabId, spec) of an editor: the editor with the door pushed to
\* the slab, or the error thrown
addDoor(editor, slabId, spec) ==
  LET slab == findSlab(editor.data, slabId)
      id == getNextDoorName(editor.doorNames, getAllDoors(editor.data))
  IN  IF slab.threw # "none" THEN Thrown(slab.threw)
      ELSE IF id.threw # "none" THEN Thrown(id.threw)
      ELSE Returned([editor EXCEPT !.data.slabs[slab.value].doors =
                       Append(@, NewDoor(id.value, spec))])

\* JSON.stringify of a door: a member whose value is undefined is left out
StringifyDoor(door) ==
  [k \in DoorMembers |-> IF door[k].kind = "undefined" THEN Absent ELSE door[k]]

StringifyDoors(doors) == [i \in 1..Len(doors) |-> StringifyDoor(doors[i])]

\* JSON.stringify(this.data, null, 2)
StringifyData(data) ==
  [data EXCEPT !.slabs = [i \in 1..Len(data.slabs) |->
     [data.slabs[i] EXCEPT !.doors = StringifyDoors(@)]]]

\* the result objects printed by output
Success(door) ==
  [success |-> TRUE, action |-> "add-door", component |-> <<StringifyDoor(door)>>, error |-> ""]

Failure(message) ==
  [success |-> FALSE, action |-> "", component |-> <<>>, error |-> message]

\* most doors of the slab before the command
MaxExistingDoors == 1

\* DOOR_NAMES.txt as loaded by the NameManager: not found, or the names
DoorNameLists == {<<>>, <<"washington", "biden">>}

\* a door of the file, as parsed from its JSON
ExistingDoor(name) ==
  [k \in DoorMembers |->
     CASE k = "id" -> Str(name)
       [] k = "wallId" -> Str("mercury_perimeter")
       [] k \in {"x", "y"} -> Num(0)
       [] k = "bayWidth" -> Num(10)
       [] k = "doorWidth" -> Num(104)
       [] k = "type" -> Str("bay")
       [] k = "orientation" -> Str("horizontal")
       [] OTHER -> Absent]

ExistingDoorLists ==
  UNION {[1..n -> {ExistingDoor("washington")}] : n \in 0..MaxExistingDoors}

\* the ModelT files the editor is constructed on
EditorData ==
  {[hasSlabs |-> FALSE, slabs |-> <<>>]} \cup
  {[hasSlabs |-> TRUE, slabs |-> <<[id |-> "mercury", doors |-> doors]>>] :
     doors \in ExistingDoorLists}

\* the options every add-door command line gives
RequiredArgs(slab) ==
  <<"--slab", slab, "--wall", "mercury_perimeter", "--x", "180", "--y", "400">>

\* --type, given or not
TypeArgs == {<<>>, <<"--type", "bay">>, <<"--type", "interior">>}

\* the further options a command line may give, in the order given
OptionalArgs ==
  << <<"--openingWidth", "10">>,
     <<"--openingHeight", "12">>,
     <<"--facing", "south">>,
     <<"--hardwareSide", "exterior">>,
     <<"--hasDockSeal", "true">>,
     <<"--hasDockLeveler">>,
     <<"--width", "3">>,
     <<"--bayWidth", "12">> >>

\* the tokens of the optional options chosen, from option i on
RECURSIVE ChosenArgs(_, _)
ChosenArgs(chosen, i) ==
  IF i > Len(OptionalArgs) THEN <<>>
  ELSE (IF i \in chosen THEN OptionalArgs[i] ELSE <<>>) \o ChosenArgs(chosen, i + 1)

CommandLines ==
  {RequiredArgs(slab) \o type \o ChosenArgs(chosen, 1) :
     slab \in {"mercury", "venus"}, type \in TypeArgs,
     chosen \in SUBSET (1..Len(OptionalArgs))}

InitCli ==
  /\ cliArgs \in CommandLines
  /\ cliOptions = <<>>
  /\ \E data \in EditorData, doorNames \in DoorNameLists :
       /\ cliData = [data |-> data, doorNames |-> doorNames]
       /\ cliFile = data
       /\ cliFileBefore = data
  /\ cliResult = <<>>
  /\ cpc = "start"
  /\ IdleTurtle
  /\ IdleMain
  /\ IdleProfile
  /\ IdleNet
  /\ IdleRect
  /\ IdleZpl
  /\ IdleServer
  /\ IdleWall

\* const options = parseOptions(args.slice(2))
ParseOptions ==
  /\ cpc = "start"
  /\ cliOptions' = parseOptions(cliArgs)
  /\ cpc' = "parsed"
  /\ UNCHANGED <<cliArgs, cliData, cliFile, cliFileBefore, cliResult>>
  /\ UNCHANGED <<varsTurtle, varsMain, varsProfile, varsRect, varsZpl, varsServer, varsWall, varsNet>>

\* case 'add-door': editor.addDoor(options.slab, {...}); an error thrown is
\* caught by main, printed, and the process exits with code 1
AddDoor ==
  /\ cpc = "parsed"
  /\ \E r \in {addDoor(cliData, cliOptions["slab"], DoorSpec(cliOptions))} :
       IF r.threw = "none"
         THEN /\ cliData' = r.value
              /\ cpc' = "added"
              /\ UNCHANGED cliResult
         ELSE /\ cliResult' = <<Failure(r.threw)>>
              /\ cpc' = "exit1"
              /\ UNCHANGED cliData
  /\ UNCHANGED <<cliArgs, cliOptions, cliFile, cliFileBefore>>
  /\ UNCHANGED <<varsTurtle, varsMain, varsProfile, varsRect, varsZpl, varsServer, varsWall, varsNet>>

\* the door addDoor returned: the last one of the slab
AddedDoor ==
  LET doors == cliData.data.slabs[findSlab(cliData.data, cliOptions["slab"]).value].doors
  IN  doors[Len(doors)]

\* editor.commit(), then output(result) and exit 0; commit saves the file
\* and then runs the generator script, whose failure is thrown, caught by
\* main and printed
Commit ==
  /\ cpc = "added"
  /\ cliFile' = StringifyData(cliData.data)
  /\ \E regenerated \in BOOLEAN :
       IF regenerated
         THEN /\ cliResult' = <<Success(AddedDoor)>>
              /\ cpc' = "exit0"
         ELSE /\ cliResult' = <<Failure("Failed to regenerate SVG")>>
              /\ cpc' = "exit1"
  /\ UNCHANGED <<cliArgs, cliOptions, cliData, cliFileBefore>>
  /\ UNCHANGED <<varsTurtle, varsMain, varsProfile, varsRect, varsZpl, varsServer, varsWall, varsNet>>

NextCli == ParseOptions \/ AddDoor \/ Commit

SpecCli == InitCli /\ [][NextCli]_vars

----------------------------------------------------------------------------
\* svg-grid-parser.js: findRectangles, findMaxRectangle,
\* generateZplFromRectangles

\* the side of the grid, in cells (10 in the source)
GridSize == 3

GridIndex == 0..(GridSize - 1)

PRINTER_DPI == 300

\* the tag width and the margins, in hundredths of an inch
TAG_WIDTH_INCHES == 550

LEFT_MARGIN_INCHES == 25

TOP_MARGIN_INCHES == 25

\* Math.round(inches * PRINTER_DPI), of hundredths of an inch
inchesToDots(hundredths) == (hundredths * PRINTER_DPI + 50) \div 100

TAG_WIDTH_DOTS == inchesToDots(TAG_WIDTH_INCHES)

LEFT_MARGIN_DOTS == inchesToDots(LEFT_MARGIN_INCHES)

TOP_MARGIN_DOTS == inchesToDots(TOP_MARGIN_INCHES)

\* TAG_WIDTH_DOTS / 10, in tenths of a dot
CELL_SIZE_DOTS == TAG_WIDTH_DOTS

\* Math.round(cells * CELL_SIZE_DOTS)
CellsToDots(cells) == (cells * CELL_SIZE_DOTS + 5) \div 10

Rect(rx, ry, w, h) == [x |-> rx, y |-> ry, width |-> w, height |-> h]

\* the cells of a rectangle
CellsOf(rect) ==
  {<<cx, cy>> : cx \in rect.x..(rect.x + rect.width - 1),
                cy \in rect.y..(rect.y + rect.height - 1)}

\* a cell the rectangle may take regardless of what was processed
Free_IgnoringProcessed(g, processed, cx, cy) == g[cy][cx]

\* grid[y][x] && !processed[y][x]
Free(g, processed, cx, cy) == g[cy][cx] /\ <<cx, cy>> \notin processed

\* findMaxRectangle: while (startX + width < 10 && grid[startY][startX + width] && ...)
RECURSIVE FindWidth(_, _, _, _, _)
FindWidth(g, processed, startX, startY, width) ==
  IF startX + width < GridSize /\ Free(g, processed, startX + width, startY)
    THEN FindWidth(g, processed, startX, startY, width + 1)
    ELSE width

\* findMaxRectangle: while (startY + height < 10) { canExtend ... }
RECURSIVE FindHeight(_, _, _, _, _, _)
FindHeight(g, processed, startX, startY, width, height) ==
  IF /\ startY + height < GridSize
     /\ \A cx \in startX..(startX + width - 1) : Free(g, processed, cx, startY + height)
    THEN FindHeight(g, processed, startX, startY, width, height + 1)
    ELSE height

\* findMaxRectangle: the rectangle, in a sequence of at most one (null is
\* the empty sequence)
findMaxRectangle(g, processed, startX, startY) ==
  IF ~ g[startY][startX] \/ <<startX, startY>> \in processed THEN <<>>
  ELSE LET width == FindWidth(g, processed, startX, startY, 1)
       IN  <<Rect(startX, startY, width,
                  FindHeight(g, processed, startX, startY, width, 1))>>

\* findRectangles: the two loops from cell c on (c = y * size + x), with
\* the cells processed and the rectangles pushed so far
RECURSIVE FindRectanglesFrom(_, _, _, _)
FindRectanglesFrom(g, c, processed, rects) ==
  IF c >= GridSize * GridSize THEN rects
  ELSE LET cx == c % GridSize
           cy == c \div GridSize
           found == findMaxRectangle(g, processed, cx, cy)
       IN  IF g[cy][cx] /\ <<cx, cy>> \notin processed /\ found # <<>>
             THEN FindRectanglesFrom(g, c + 1, processed \cup CellsOf(found[1]),
                                     Append(rects, found[1]))
             ELSE FindRectanglesFrom(g, c + 1, processed, rects)

findRectangles(g) == FindRectanglesFrom(g, 0, {}, <<>>)

\* generateZplFromRectangles: the ^FO position and ^GB size of each box
generateZplFromRectangles(rects) ==
  [k \in 1..Len(rects) |->
     [xDots |-> LEFT_MARGIN_DOTS + CellsToDots(rects[k].x),
      yDots |-> TOP_MARGIN_DOTS + CellsToDots(rects[k].y),
      widthDots |-> CellsToDots(rects[k].width),
      heightDots |-> CellsToDots(rects[k].height)]]

InitRect ==
  /\ grid \in [GridIndex -> [GridIndex -> BOOLEAN]]
  /\ rectangles = <<>>
  /\ zplBoxes = <<>>
  /\ rpc = "grid"
  /\ IdleTurtle
  /\ IdleMain
  /\ IdleProfile
  /\ IdleNet
  /\ IdleCli
  /\ IdleZpl
  /\ IdleServer
  /\ IdleWall

\* const rectangles = findRectangles(grid)
FindRectangles ==
  /\ rpc = "grid"
  /\ rectangles' = findRectangles(grid)
  /\ rpc' = "found"
  /\ UNCHANGED <<grid, zplBoxes>>
  /\ UNCHANGED <<varsTurtle, varsMain, varsProfile, varsCli, varsZpl, varsServer, varsWall, varsNet>>

\* const zpl = generateZplFromRectangles(rectangles)
GenerateZpl ==
  /\ rpc = "found"
  /\ zplBoxes' = generateZplFromRectangles(rectangles)
  /\ rpc' = "generated"
  /\ UNCHANGED <<grid, rectangles>>
  /\ UNCHANGED <<varsTurtle, varsMain, varsProfile, varsCli, varsZpl, varsServer, varsWall, varsNet>>

NextRect == FindRectangles \/ GenerateZpl

SpecRect == InitRect /\ [][NextRect]_vars

----------------------------------------------------------------------------
\* svg-to-zpl-cli (part_000): main, convertAndSave

\* a JavaScript number that may be NaN
Number(v) == [nan |-> FALSE, n |-> v]

NaN == [nan |-> TRUE, n |-> 0]

\* the tag IDs written on the command line
TagIdChoices == {-1, 0, 500, 2286, 2287, 3000, 4294, 4295, 48813, 48814}

\* parseInt(args[2]): of an argument not given or not a number, NaN
parseInt(args, i) ==
  IF i <= Len(args) /\ \E v \in TagIdChoices : ToString(v) = args[i]
    THEN Number(CHOOSE v \in TagIdChoices : ToString(v) = args[i])
    ELSE NaN

\* parseInt(args[2]) || 0
tagIdOf(args) ==
  LET parsed == parseInt(args, 3)
  IN  IF parsed.nan \/ parsed.n = 0 THEN Number(0) ELSE parsed

\* args[1] || 'tagStandard52h13'
tagFamilyOf(args) ==
  IF Len(args) >= 2 /\ args[2] # "" THEN args[2] ELSE "tagStandard52h13"

\* the largest tag ID main accepts, the same for every family
MaxTagId(family) == 48813

\* isNaN(tagId) || tagId < 0 || tagId > 48813
TagIdRejected(family, tagId) ==
  tagId.nan \/ tagId.n < 0 \/ tagId.n > MaxTagId(family)

\* String(tagId).padStart(5, '0'), of a tag ID that is not negative
padStart5(v) ==
  (IF v < 10 THEN "0000"
   ELSE IF v < 100 THEN "000"
   ELSE IF v < 1000 THEN "00"
   ELSE IF v < 10000 THEN "0"
   ELSE "") \o ToString(v)

\* the name of the ZPL file convertAndSave writes
zplFilename(family, v) == "apriltag_" \o family \o "_" \o padStart5(v) \o ".zpl"

RangeMessage == "Error: Tag ID must be between 0 and 48813"

\* the command lines: no argument, or a path or --help followed by at
\* most a family and a tag ID
ZplCommandLines ==
  LET first == {"apriltag.svg", "missing.svg", "--help"}
      families == {"tagStandard52h13", "36h11", "tagStandard41h12"}
      ids == {ToString(v) : v \in TagIdChoices} \cup {"abc"}
  IN  {<<>>} \cup {<<f>> : f \in first}
        \cup {<<f, family>> : f \in first, family \in families}
        \cup {<<f, family, id>> : f \in first, family \in families, id \in ids}

InitZpl ==
  /\ \E args \in ZplCommandLines :
       zplArgs = [args |-> args, existing |-> {"apriltag.svg"}]
  /\ zplFiles = {}
  /\ zplExit = <<>>
  /\ zplMessage = ""
  /\ zpc = "start"
  /\ IdleTurtle
  /\ IdleMain
  /\ IdleProfile
  /\ IdleNet
  /\ IdleCli
  /\ IdleRect
  /\ IdleServer
  /\ IdleWall

\* args.length < 1 || args[0] === '--help' || args[0] === '-h'
UsageAsked(args) == IF Len(args) < 1 THEN TRUE ELSE args[1] \in {"--help", "-h"}

\* main: printUsage() and exit
PrintUsage ==
  /\ zpc = "start"
  /\ UsageAsked(zplArgs.args)
  /\ zplExit' = <<IF Len(zplArgs.args) < 1 THEN 1 ELSE 0>>
  /\ zplMessage' = "Usage: node svg-to-zpl-cli.js <svg-file> [family] [tagId]"
  /\ zpc' = "done"
  /\ UNCHANGED <<zplArgs, zplFiles>>
  /\ UNCHANGED <<varsTurtle, varsMain, varsProfile, varsCli, varsRect, varsServer, varsWall, varsNet>>

\* main: the checks of the file and of the tag ID
CheckArguments ==
  /\ zpc = "start"
  /\ ~ UsageAsked(zplArgs.args)
  /\ IF zplArgs.args[1] \notin zplArgs.existing
       THEN /\ zplMessage' = "Error: File not found"
            /\ zplExit' = <<1>>
            /\ zpc' = "done"
       ELSE IF TagIdRejected(tagFamilyOf(zplArgs.args), tagIdOf(zplArgs.args))
         THEN /\ zplMessage' = RangeMessage
              /\ zplExit' = <<1>>
              /\ zpc' = "done"
         ELSE /\ zpc' = "converting"
              /\ UNCHANGED <<zplMessage, zplExit>>
  /\ UNCHANGED <<zplArgs, zplFiles>>
  /\ UNCHANGED <<varsTurtle, varsMain, varsProfile, varsCli, varsRect, varsServer, varsWall, varsNet>>

\* main: convertAndSave(svgContent, tagFamily, tagId, svgPath), which
\* writes the ZPL file; an error thrown while reading, converting or
\* writing is caught and main exits with code 1
ConvertAndSave ==
  /\ zpc = "converting"
  /\ \E converted \in BOOLEAN :
       IF converted
         THEN /\ zplFiles' = zplFiles \cup
                   {zplFilename(tagFamilyOf(zplArgs.args), tagIdOf(zplArgs.args).n)}
              /\ zplExit' = <<0>>
              /\ UNCHANGED zplMessage
         ELSE /\ zplMessage' = "Error: " \o "conversion failed"
              /\ zplExit' = <<1>>
              /\ UNCHANGED zplFiles
  /\ zpc' = "done"
  /\ UNCHANGED zplArgs
  /\ UNCHANGED <<varsTurtle, varsMain, varsProfile, varsCli, varsRect, varsServer, varsWall, varsNet>>

NextZpl == PrintUsage \/ CheckArguments \/ ConvertAndSave

SpecZpl == InitZpl /\ [][NextZpl]_vars

----------------------------------------------------------------------------
\* the warehouses API: GET /api/warehouses/:id (warehouses router) and
\* GET /api/warehouses/:id/svg (svg router)

\* the warehouse requested
WarehouseId == "lodge"

\* the files a warehouse folder may hold
FolderFiles ==
  {"warehouse.json", "metadata.json", "warehouse.svg",
   WarehouseId \o ".modelT.json", WarehouseId \o ".modelT.svg"}

\* a response: its status, its content type and what its body is made from
Response(status, type, body) == [status |-> status, type |-> type, body |-> body]

JsonError(status, message) == Response(status, "application/json", message)

\* GET /:id of the warehouses router
getWarehouse(f, id) ==
  IF "warehouse.json" \notin f.files THEN JsonError(404, "Warehouse not found")
  ELSE IF ~ f.specParses THEN JsonError(500, "JSON.parse failed")
  ELSE Response(200, "application/json", "warehouse.json")

\* a fallback that looks for warehouse.svg first
cachedSvg_PreferWarehouse(f, id) ==
  IF "warehouse.svg" \in f.files THEN <<"warehouse.svg">>
  ELSE IF id \o ".modelT.svg" \in f.files THEN <<id \o ".modelT.svg">>
  ELSE <<>>

\* the cached SVG both fallbacks of GET /:id/svg look for: the name of the
\* file, in a sequence of at most one
cachedSvg(f, id) ==
  IF id \o ".modelT.svg" \in f.files THEN <<id \o ".modelT.svg">>
  ELSE IF "warehouse.svg" \in f.files THEN <<"warehouse.svg">>
  ELSE <<>>

\* GET /:id/svg, generated telling whether the generator script succeeds
getSvg(f, id, generated) ==
  IF id \o ".modelT.json" \notin f.files
    THEN JsonError(404, "Warehouse specification not found")
  ELSE IF ~ f.scriptExists
    THEN IF cachedSvg(f, id) # <<>>
           THEN Response(200, "image/svg+xml", cachedSvg(f, id)[1])
           ELSE JsonError(404, "SVG generator not found and no cached SVG available")
  ELSE IF generated
    THEN Response(200, "image/svg+xml", "generate-svg.js " \o id \o ".modelT.json")
  ELSE IF cachedSvg(f, id) # <<>>
    THEN Response(200, "image/svg+xml", cachedSvg(f, id)[1])
  ELSE JsonError(500, "SVG generation failed")

InitServer ==
  /\ \E files \in SUBSET FolderFiles, scriptExists \in BOOLEAN,
        specParses \in BOOLEAN, generationSucceeds \in BOOLEAN :
       folder = [files |-> files, scriptExists |-> scriptExists,
                 specParses |-> specParses, generationSucceeds |-> generationSucceeds]
  /\ specResponse = <<>>
  /\ svgResponse = <<>>
  /\ IdleTurtle
  /\ IdleMain
  /\ IdleProfile
  /\ IdleNet
  /\ IdleCli
  /\ IdleRect
  /\ IdleZpl
  /\ IdleWall

\* router.get('/:id')
GetWarehouse ==
  /\ specResponse = <<>>
  /\ specResponse' = <<getWarehouse(folder, WarehouseId)>>
  /\ UNCHANGED <<folder, svgResponse>>
  /\ UNCHANGED <<varsTurtle, varsMain, varsProfile, varsCli, varsRect, varsZpl, varsWall, varsNet>>

\* router.get('/:id/svg')
GetSvg ==
  /\ svgResponse = <<>>
  /\ svgResponse' = <<getSvg(folder, WarehouseId, folder.generationSucceeds)>>
  /\ UNCHANGED <<folder, specResponse>>
  /\ UNCHANGED <<varsTurtle, varsMain, varsProfile, varsCli, varsRect, varsZpl, varsWall, varsNet>>

NextServer == GetWarehouse \/ GetSvg

SpecServer == InitServer /\ [][NextServer]_vars

----------------------------------------------------------------------------
\* part_006 ModelTBuilder.buildWallMesh

\* most doors given to buildWallMesh
MaxPerimeterDoors == 1

\* Math.sqrt(dx * dx + dy * dy): exact for an edge along an axis, else
\* rounded down to the model unit
EdgeLength(dx, dy) ==
  IF dy = 0 THEN Abs(dx)
  ELSE IF dx = 0 THEN Abs(dy)
  ELSE CHOOSE r \in 0..(Abs(dx) + Abs(dy)) :
         r * r <= dx * dx + dy * dy /\ dx * dx + dy * dy < (r + 1) * (r + 1)

\* createSimpleWallSegment / createWallSegmentWithDoors: the mesh pushed
\* to meshes.walls for edge i, with the doors cut out of it
WallSegment(slabId, wallId, i, p1, p2, segmentDoors) ==
  [name |-> <<slabId, wallId, i>>, p1 |-> p1, p2 |-> p2,
   kind |-> IF Len(segmentDoors) = 0 THEN "box" ELSE "extruded",
   doors |-> segmentDoors]

\* buildWallMesh: for (let i = 0; i < corners.length; i++), from edge i on
RECURSIVE BuildWallFrom(_, _, _, _)
BuildWallFrom(wall, slabId, wallDoors, i) ==
  IF i >= Len(wall.corners) THEN <<>>
  ELSE LET p1 == wall.corners[i + 1]
           p2 == wall.corners[((i + 1) % Len(wall.corners)) + 1]
           dx == Sub(p2.x, p1.x)
           dy == Sub(p2.y, p1.y)
           isHorizontal == LessThanTenth(dy)
           isVertical == LessThanTenth(dx)
           segmentDoors == findDoorsOnSegment(wallDoors, p1, p2, isHorizontal, isVertical)
           rest == BuildWallFrom(wall, slabId, wallDoors, i + 1)
       IN  IF LessThanTenth(EdgeLength(dx, dy)) THEN rest
           ELSE <<WallSegment(slabId, wall.id, i, p1, p2, segmentDoors)>> \o rest

\* buildWallMesh(wall, slabElevation, slabId, doors): the meshes pushed
buildWallMesh(wall, slabId, doors) ==
  IF ~ wall.hasCorners THEN <<>>
  ELSE BuildWallFrom(wall, slabId,
                     SelectSeq(doors, LAMBDA door : door.wallId = wall.id), 0)

\* the sides of the rectangular perimeters, in feet
PerimeterSides == {12, 20}

\* closed rectangular perimeter walls, and a wall without corners
PerimeterWalls ==
  {[id |-> "mercury_perimeter", hasCorners |-> TRUE,
    corners |-> <<Pt(0, 0), Pt(w * Foot, 0), Pt(w * Foot, h * Foot), Pt(0, h * Foot)>>] :
     w \in PerimeterSides, h \in PerimeterSides}
  \cup {[id |-> "mercury_perimeter", hasCorners |-> FALSE, corners |-> <<>>]}

\* where along an edge a door is placed, in feet from the corner
DoorOffsets == {2, 5, 6, 10}

\* doors placed on an edge of the wall, of this wall or of another
PerimeterDoorChoices(wall) ==
  IF ~ wall.hasCorners THEN {[id |-> "lincoln", wallId |-> wall.id, x |-> 0, y |-> 0]}
  ELSE LET w == wall.corners[3].x
           h == wall.corners[3].y
       IN  {[id |-> "lincoln", wallId |-> wallId, x |-> p.x, y |-> p.y] :
              wallId \in {wall.id, "venus_perimeter"},
              p \in {Pt(o * Foot, 0) : o \in DoorOffsets}
                    \cup {Pt(o * Foot, h) : o \in DoorOffsets}
                    \cup {Pt(0, o * Foot) : o \in DoorOffsets}
                    \cup {Pt(w, o * Foot) : o \in DoorOffsets}}

InitWall ==
  /\ perimeter \in PerimeterWalls
  /\ \E n \in 0..MaxPerimeterDoors :
       perimeterDoors \in [1..n -> PerimeterDoorChoices(perimeter)]
  /\ wallSegments = <<>>
  /\ wpc = "ready"
  /\ IdleTurtle
  /\ IdleMain
  /\ IdleProfile
  /\ IdleNet
  /\ IdleCli
  /\ IdleRect
  /\ IdleZpl
  /\ IdleServer

\* this.buildWallMesh(wall, slabElevation, slabId, doors)
BuildWallMesh ==
  /\ wpc = "ready"
  /\ wallSegments' = buildWallMesh(perimeter, "mercury", perimeterDoors)
  /\ wpc' = "built"
  /\ UNCHANGED <<perimeter, perimeterDoors>>
  /\ UNCHANGED <<varsTurtle, varsMain, varsProfile, varsCli, varsRect, varsZpl, varsServer, varsNet>>

NextWall == BuildWallMesh

SpecWall == InitWall /\ [][NextWall]_vars

----------------------------------------------------------------------------
\* server.js: the WebSocket server (register, test, reload-warehouse,
\* query, close)

\* most connections made to the WebSocket server
MaxConnections == 2

Connections == 1..MaxConnections

\* the warehouse ids named in messages
WarehouseIds == {"lodge", "denver"}

\* the message types forwarded to the clients of a warehouse
RelayTypes == {"test", "reload-warehouse", "query"}

\* clients.has(id)
MapHas(map, id) == id \in DOMAIN map

\* clients.set(id, value)
MapSet(map, id, value) ==
  [k \in DOMAIN map \cup {id} |-> IF k = id THEN value ELSE map[k]]

\* clients.delete(id)
MapDelete(map, id) == [k \in DOMAIN map \ {id} |-> map[k]]

\* the register branch of ws.on('message'): the clients map after it
register(map, ws, warehouseId) ==
  LET created == IF MapHas(map, warehouseId) THEN map ELSE MapSet(map, warehouseId, {})
  IN  MapSet(created, warehouseId, created[warehouseId] \cup {ws})

\* the test, reload-warehouse and query branches: the connections the
\* message is sent to
forwardedTo(map, states, warehouseId) ==
  IF MapHas(map, warehouseId)
    THEN {client \in map[warehouseId] : states[client] = "open"}
    ELSE {}

\* ws.on('close'): the clients map after it
closeHandler(map, ws, warehouseId) ==
  IF warehouseId # "null" /\ MapHas(map, warehouseId)
    THEN LET removed == MapSet(map, warehouseId, map[warehouseId] \ {ws})
         IN  IF removed[warehouseId] = {} THEN MapDelete(removed, warehouseId)
             ELSE removed
    ELSE map

InitRelay ==
  /\ clients = <<>>
  /\ readyState = [c \in Connections |-> "none"]
  /\ clientWarehouseId = [c \in Connections |-> "null"]
  /\ relayLog = <<>>
  /\ IdleMain
  /\ IdleTurtle
  /\ IdleProfile
  /\ IdleTools
  /\ IdleMarks
  /\ IdleQuery
  /\ IdleEditor

\* wss.on('connection')
Connect(ws) ==
  /\ readyState[ws] = "none"
  /\ readyState' = [readyState EXCEPT ![ws] = "open"]
  /\ clientWarehouseId' = [clientWarehouseId EXCEPT ![ws] = "null"]
  /\ UNCHANGED <<clients, relayLog>>
  /\ UNCHANGED <<varsTurtle, varsMain, varsProfile, varsTools, varsMarks, varsQuery, varsEditor>>

\* ws.on('message') with data.type === 'register'
Register(ws, warehouseId) ==
  /\ readyState[ws] = "open"
  /\ clientWarehouseId' = [clientWarehouseId EXCEPT ![ws] = warehouseId]
  /\ clients' = register(clients, ws, warehouseId)
  /\ UNCHANGED <<readyState, relayLog>>
  /\ UNCHANGED <<varsTurtle, varsMain, varsProfile, varsTools, varsMarks, varsQuery, varsEditor>>

\* ws.on('message') with data.type test, reload-warehouse or query, sent
\* on connection ws; the message is recorded with the connections it was
\* sent to and the warehouse each of them was registered for
Relay(ws, type, warehouseId) ==
  /\ readyState[ws] = "open"
  /\ \E to \in {forwardedTo(clients, readyState, warehouseId)} :
       relayLog' = <<[type |-> type, warehouseId |-> warehouseId, to |-> to,
                      registeredAs |-> [c \in to |-> clientWarehouseId[c]]]>>
  /\ UNCHANGED <<clients, readyState, clientWarehouseId>>
  /\ UNCHANGED <<varsTurtle, varsMain, varsProfile, varsTools, varsMarks, varsQuery, varsEditor>>

\* ws.on('close')
Close(ws) ==
  /\ readyState[ws] = "open"
  /\ readyState' = [readyState EXCEPT ![ws] = "closed"]
  /\ clients' = closeHandler(clients, ws, clientWarehouseId[ws])
  /\ UNCHANGED <<clientWarehouseId, relayLog>>
  /\ UNCHANGED <<varsTurtle, varsMain, varsProfile, varsTools, varsMarks, varsQuery, varsEditor>>

NextRelay ==
  \/ \E ws \in Connections : Connect(ws)
  \/ \E ws \in Connections, warehouseId \in WarehouseIds : Register(ws, warehouseId)
  \/ \E ws \in Connections, type \in RelayTypes, warehouseId \in WarehouseIds :
       Relay(ws, type, warehouseId)
  \/ \E ws \in Connections : Close(ws)

SpecRelay == InitRelay /\ [][NextRelay]_vars

----------------------------------------------------------------------------
\* server.js: markedPositions, the mark-position handler and
\* GET /api/warehouses/:id/marked-position

\* most mark-position messages handled
MaxMarks == 3

\* what a mark-position message carries besides its warehouse id; a
\* message may come with no camera and with no position
MarkPayloads ==
  {[camera |-> "brownie", position |-> "(170, 250) on wall", timestamp |-> 1],
   [camera |-> "undefined", position |-> "(12, 40) on floor", timestamp |-> 2],
   [camera |-> "pizza", position |-> "undefined", timestamp |-> 3]}

\* a mark-position handler that keeps the first position marked
markPosition_KeepFirst(map, warehouseId, data) ==
  IF MapHas(map, warehouseId) THEN map ELSE MapSet(map, warehouseId, data)

\* markedPositions.set(data.warehouseId, { camera, position, timestamp })
markPosition(map, warehouseId, data) ==
  MapSet(map, warehouseId,
         [camera |-> data.camera, position |-> data.position, timestamp |-> data.timestamp])

\* app.get('/api/warehouses/:id/marked-position'): the status and the
\* position member of the JSON sent (none with the 404)
getMarkedPosition(map, warehouseId) ==
  IF MapHas(map, warehouseId)
    THEN [status |-> 200, warehouseId |-> warehouseId, position |-> <<map[warehouseId]>>]
    ELSE [status |-> 404, warehouseId |-> warehouseId, position |-> <<>>]

InitMarks ==
  /\ markedPositions = <<>>
  /\ markLog = <<>>
  /\ markedResponse = <<>>
  /\ IdleMain
  /\ IdleTurtle
  /\ IdleProfile
  /\ IdleTools
  /\ IdleRelay
  /\ IdleQuery
  /\ IdleEditor

\* ws.on('message') with data.type === 'mark-position'
MarkPosition(warehouseId, data) ==
  /\ Len(markLog) < MaxMarks
  /\ markedPositions' = markPosition(markedPositions, warehouseId, data)
  /\ markLog' = Append(markLog, [warehouseId |-> warehouseId, data |-> data])
  /\ UNCHANGED markedResponse
  /\ UNCHANGED <<varsTurtle, varsMain, varsProfile, varsTools, varsRelay, varsQuery, varsEditor>>

\* a GET /api/warehouses/:id/marked-position request; the response is
\* kept with the number of mark-position messages handled before it
GetMarkedPosition(warehouseId) ==
  /\ markedResponse' =
       <<[response |-> getMarkedPosition(markedPositions, warehouseId),
          after |-> Len(markLog)]>>
  /\ UNCHANGED <<markedPositions, markLog>>
  /\ UNCHANGED <<varsTurtle, varsMain, varsProfile, varsTools, varsRelay, varsQuery, varsEditor>>

NextMarks ==
  \/ \E warehouseId \in WarehouseIds, data \in MarkPayloads : MarkPosition(warehouseId, data)
  \/ \E warehouseId \in WarehouseIds : GetMarkedPosition(warehouseId)

SpecMarks == InitMarks /\ [][NextMarks]_vars

----------------------------------------------------------------------------
\* modelt-query (modelt-cli.js:372-467)

\* most messages the tool receives on its connection
MaxMessages == 3

QueryArgs ==
  {<<>>, <<"lodge">>, <<"lodge", "get-current-view">>,
   <<"denver", "get-camera-intersection", "brownie">>}

\* `query_${Date.now()}_${Math.random().toString(36).substr(2, 9)}`
QueryIds == {"query_1762220000000_k3x9w2m1a", "query_1762220000412_p9q0z7c5t"}

\* the result member of a query-response; a response may come without one
NoResult == [defined |-> FALSE, target |-> ""]

QueryResults == {[defined |-> TRUE, target |-> "slab"], NoResult}

\* what arrives on the connection: the text of a JSON object, of the JSON
\* value null, or a text that is no JSON
Incoming ==
  [json : {"object"}, type : {"query-response"}, queryId : QueryIds, result : QueryResults]
    \cup {[json |-> "object", type |-> "reload-warehouse",
           queryId |-> "undefined", result |-> NoResult],
          [json |-> "null", type |-> "", queryId |-> "", result |-> NoResult],
          [json |-> "invalid", type |-> "", queryId |-> "", result |-> NoResult]}

\* the query sent by ws.on('open'); cameraId only if commandArgs[0] is given
query(args, id) ==
  [type |-> "query", queryId |-> id, warehouseId |-> args[1], command |-> args[2],
   cameraId |-> IF Len(args) > 2 THEN <<args[3]>> ELSE <<>>]

\* JSON.stringify(message.result, null, 2) as console.log prints it
StringifyResult(result) ==
  IF ~result.defined
    THEN "undefined"
    ELSE "{\n  \"target\": \"" \o result.target \o "\"\n}"

\* a test of ws.on('message') that takes every query-response as the own
isOwnResponse_AnyQueryId(data, id) ==
  /\ data.json = "object"
  /\ data.type = "query-response"

\* ws.on('message'): JSON.parse(data) throws on a text that is no JSON,
\* message.type throws on null, and both are caught; otherwise
\* message.type === 'query-response' && message.queryId === queryId
isOwnResponse(data, id) ==
  /\ data.json = "object"
  /\ data.type = "query-response"
  /\ data.queryId = id

Exit(code, stdout, stderr) == [code |-> code, stdout |-> stdout, stderr |-> stderr]

InitQuery ==
  /\ qpc = "start"
  /\ qArgs \in QueryArgs
  /\ queryId = ""
  /\ qSent = <<>>
  /\ qReceived = <<>>
  /\ qResult = <<>>
  /\ IdleMain
  /\ IdleTurtle
  /\ IdleProfile
  /\ IdleTools
  /\ IdleRelay
  /\ IdleMarks
  /\ IdleEditor

\* the script up to new WebSocket(...): the usage exit, the query id
StartQuery ==
  /\ qpc = "start"
  /\ IF Len(qArgs) < 2
       THEN /\ qpc' = "exited"
            /\ qResult' = <<Exit(1, "", "Usage: node modelt-query.js <warehouse> <command> [args]")>>
            /\ UNCHANGED queryId
       ELSE /\ qpc' = "connecting"
            /\ queryId' \in QueryIds
            /\ UNCHANGED qResult
  /\ UNCHANGED <<qArgs, qSent, qReceived>>
  /\ UNCHANGED <<varsTurtle, varsMain, varsProfile, varsTools, varsRelay, varsMarks, varsEditor>>

\* ws.on('open'): sends the query and arms the 5000 ms timer
OpenQuery ==
  /\ qpc = "connecting"
  /\ qSent' = <<query(qArgs, queryId)>>
  /\ qpc' = "waiting"
  /\ UNCHANGED <<qArgs, queryId, qReceived, qResult>>
  /\ UNCHANGED <<varsTurtle, varsMain, varsProfile, varsTools, varsRelay, varsMarks, varsEditor>>

\* ws.on('message')
ReceiveQuery(data) ==
  /\ qpc = "waiting"
  /\ Len(qReceived) < MaxMessages
  /\ qReceived' = Append(qReceived, data)
  /\ IF isOwnResponse(data, queryId)
       THEN /\ qResult' = <<Exit(0, StringifyResult(data.result), "")>>
            /\ qpc' = "exited"
       ELSE UNCHANGED <<qpc, qResult>>
  /\ UNCHANGED <<qArgs, queryId, qSent>>
  /\ UNCHANGED <<varsTurtle, varsMain, varsProfile, varsTools, varsRelay, varsMarks, varsEditor>>

\* ws.on('error'), before the connection is open or after
SocketErrorQuery ==
  /\ qpc \in {"connecting", "waiting"}
  /\ qResult' = <<Exit(1, "", "WebSocket error:")>>
  /\ qpc' = "exited"
  /\ UNCHANGED <<qArgs, queryId, qSent, qReceived>>
  /\ UNCHANGED <<varsTurtle, varsMain, varsProfile, varsTools, varsRelay, varsMarks, varsEditor>>

\* ws.on('close') with the server closing the connection: the handler is
\* empty, no message arrives any more and the timer stays armed
CloseQuery ==
  /\ qpc = "waiting"
  /\ qpc' = "closed"
  /\ UNCHANGED <<qArgs, queryId, qSent, qReceived, qResult>>
  /\ UNCHANGED <<varsTurtle, varsMain, varsProfile, varsTools, varsRelay, varsMarks, varsEditor>>

\* the callback of setTimeout(..., 5000)
TimeoutQuery ==
  /\ qpc \in {"waiting", "closed"}
  /\ qResult' = <<Exit(1, "", "Query timeout - no response received")>>
  /\ qpc' = "exited"
  /\ UNCHANGED <<qArgs, queryId, qSent, qReceived>>
  /\ UNCHANGED <<varsTurtle, varsMain, varsProfile, varsTools, varsRelay, varsMarks, varsEditor>>

NextQuery ==
  \/ StartQuery
  \/ OpenQuery
  \/ \E data \in Incoming : ReceiveQuery(data)
  \/ SocketErrorQuery
  \/ CloseQuery
  \/ TimeoutQuery

SpecQuery == InitQuery /\ [][NextQuery]_vars

\* the timer armed by ws.on('open') is cleared only by handlers that exit,
\* so the event loop runs its callback unless the process has exited
SpecQueryLive == SpecQuery /\ WF_vars(TimeoutQuery)

----------------------------------------------------------------------------
\* ModelTEditor (modelt-editor.js): adding, moving, updating and deleting
\* the doors and the cameras of a facility.  An editor is the record of its
\* data and of the name lists of its NameManager, as in SpecCli.

\* most operations applied to one editor
MaxOperations == 2

\* the members a camera object may have
CameraMembers ==
  {"id", "name", "number", "x", "y", "elevation", "direction", "tilt", "roll",
   "viewingAngle", "range", "location"}

\* CAMERA_NAMES.txt and DOOR_NAMES.txt as loaded by the NameManager
CameraNameList == <<"brownie", "pizza">>

DoorNameList == <<"washington", "lincoln", "biden">>

\* str.charAt(0).toUpperCase() + str.slice(1), on the names of the list
capitalize(str) ==
  CASE str = "brownie" -> "Brownie"
    [] str = "pizza" -> "Pizza"
    [] OTHER -> str

\* getAllCameras: the cameras of the slabs from slab i on
RECURSIVE AllCamerasFrom(_, _)
AllCamerasFrom(slabs, i) ==
  IF i > Len(slabs) THEN <<>> ELSE slabs[i].cameras \o AllCamerasFrom(slabs, i + 1)

getAllCameras(data) == IF data.hasSlabs THEN AllCamerasFrom(data.slabs, 1) ELSE <<>>

getNextCameraName(cameraNames, existingCameras) ==
  LET usedNames == {existingCameras[i]["id"] : i \in 1..Len(existingCameras)}
      free == {i \in 1..Len(cameraNames) : Str(cameraNames[i]) \notin usedNames}
  IN  IF free = {} THEN Thrown("No available camera names remaining in CAMERA_NAMES.txt")
      ELSE Returned(cameraNames[CHOOSE i \in free : \A j \in free : i <= j])

\* Math.max(...existingCameras.map(c => c.number || 0), 0) + 1
getNextCameraNumber(existingCameras) ==
  LET numbers == {OrElse(existingCameras[i]["number"], Num(0)).n :
                    i \in 1..Len(existingCameras)} \cup {0}
  IN  (CHOOSE m \in numbers : \A n \in numbers : n <= m) + 1

\* addCamera: the camera object built from the spec
NewCamera(id, number, spec) ==
  [k \in CameraMembers |->
     CASE k = "id" -> Str(id)
       [] k = "name" -> Str(capitalize(id))
       [] k = "number" -> Num(number)
       [] k \in {"x", "y"} -> spec[k]
       [] k = "elevation" -> OrElse(spec[k], Num(12))
       [] k = "direction" -> OrElse(spec[k], Num(0))
       [] k = "tilt" -> OrElse(spec[k], Num(20))
       [] k = "roll" -> OrElse(spec[k], Num(0))
       [] k = "viewingAngle" -> OrElse(spec[k], Num(90))
       [] k = "range" -> OrElse(spec[k], Num(50))
       [] k = "location" -> OrElse(spec[k], Str(""))]

addCamera(editor, slabId, spec) ==
  LET slab == findSlab(editor.data, slabId)
      allCameras == getAllCameras(editor.data)
      id == getNextCameraName(editor.cameraNames, allCameras)
  IN  IF slab.threw # "none" THEN Thrown(slab.threw)
      ELSE IF id.threw # "none" THEN Thrown(id.threw)
      ELSE Returned([editor EXCEPT !.data.slabs[slab.value].cameras =
                       Append(@, NewCamera(id.value, getNextCameraNumber(allCameras), spec))])

\* for (const slab of this.data.slabs) ... find(c => c.id === id): the
\* first slab that has a component with the id and the first such component
\* in it, as <<slab, index>>, or <<>> when no slab has one
FindFrom(lists, id, i) ==
  LET holds(list) == \E j \in 1..Len(list) : list[j]["id"] = Str(id)
      slabs == {s \in i..Len(lists) : holds(lists[s])}
  IN  IF slabs = {} THEN <<>>
      ELSE LET s == CHOOSE s \in slabs : \A t \in slabs : s <= t
           IN  <<s, CHOOSE j \in 1..Len(lists[s]) :
                       /\ lists[s][j]["id"] = Str(id)
                       /\ \A h \in 1..(j - 1) : lists[s][h]["id"] # Str(id)>>

DoorListsOf(data) == [s \in 1..Len(data.slabs) |-> data.slabs[s].doors]

CameraListsOf(data) == [s \in 1..Len(data.slabs) |-> data.slabs[s].cameras]

\* component.x += deltaX; component.y += deltaY, on numbers
Moved(component, deltaX, deltaY) ==
  [component EXCEPT !["x"] = Num(@.n + deltaX), !["y"] = Num(@.n + deltaY)]

\* Object.assign(component, props): every member of props is written
Assigned(component, props) ==
  [k \in DOMAIN component |-> IF k \in DOMAIN props THEN props[k] ELSE component[k]]

\* list.splice(index, 1)
Spliced(list, index) == SubSeq(list, 1, index - 1) \o SubSeq(list, index + 1, Len(list))

moveCamera(editor, cameraId, deltaX, deltaY) ==
  LET at == FindFrom(CameraListsOf(editor.data), cameraId, 1)
  IN  IF at = <<>> THEN Thrown("Camera not found")
      ELSE Returned([editor EXCEPT !.data.slabs[at[1]].cameras[at[2]] = Moved(@, deltaX, deltaY)])

updateCamera(editor, cameraId, props) ==
  LET at == FindFrom(CameraListsOf(editor.data), cameraId, 1)
  IN  IF at = <<>> THEN Thrown("Camera not found")
      ELSE Returned([editor EXCEPT !.data.slabs[at[1]].cameras[at[2]] = Assigned(@, props)])

deleteCamera(editor, cameraId) ==
  LET at == FindFrom(CameraListsOf(editor.data), cameraId, 1)
  IN  IF at = <<>> THEN Thrown("Camera not found")
      ELSE Returned([editor EXCEPT !.data.slabs[at[1]].cameras = Spliced(@, at[2])])

moveDoor(editor, doorId, deltaX, deltaY) ==
  LET at == FindFrom(DoorListsOf(editor.data), doorId, 1)
  IN  IF at = <<>> THEN Thrown("Door not found")
      ELSE Returned([editor EXCEPT !.data.slabs[at[1]].doors[at[2]] = Moved(@, deltaX, deltaY)])

updateDoor(editor, doorId, props) ==
  LET at == FindFrom(DoorListsOf(editor.data), doorId, 1)
  IN  IF at = <<>> THEN Thrown("Door not found")
      ELSE Returned([editor EXCEPT !.data.slabs[at[1]].doors[at[2]] = Assigned(@, props)])

deleteDoor(editor, doorId) ==
  LET at == FindFrom(DoorListsOf(editor.data), doorId, 1)
  IN  IF at = <<>> THEN Thrown("Door not found")
      ELSE Returned([editor EXCEPT !.data.slabs[at[1]].doors = Spliced(@, at[2])])

\* a camera of the file, as parsed from its JSON
ExistingCamera(name, number) ==
  NewCamera(name, number, [k \in CameraMembers |-> IF k \in {"x", "y"} THEN Num(0) ELSE Absent])

\* the facility the editor is constructed on: two slabs, each with a door
\* and a camera, all ids distinct
Facility ==
  [hasSlabs |-> TRUE,
   slabs |-> <<[id |-> "mercury", doors |-> <<ExistingDoor("washington")>>,
                cameras |-> <<ExistingCamera("brownie", 1)>>],
               [id |-> "venus", doors |-> <<ExistingDoor("lincoln")>>,
                cameras |-> <<ExistingCamera("pizza", 2)>>]>>]

\* the arguments of the operations: slabs, ids and properties that are in
\* the facility and some that are not
EditedSlabs == {"mercury", "pluto"}

EditedDoors == {"washington", "lincoln", "nixon"}

EditedCameras == {"brownie", "pizza", "taco"}

NewDoorSpec ==
  [k \in SpecKeys |->
     CASE k = "wallId" -> Str("mercury_perimeter")
       [] k = "x" -> Num(180)
       [] k = "y" -> Num(400)
       [] OTHER -> Undefined]

NewCameraSpec == [k \in CameraMembers |-> IF k \in {"x", "y"} THEN Num(8) ELSE Undefined]

DoorProps == {[k \in {"facing"} |-> Str("north")], [k \in {"id"} |-> Str("lincoln")]}

CameraProps == {[k \in {"location"} |-> Str("dock")], [k \in {"id"} |-> Str("pizza")]}

InitEditor ==
  /\ edData = [data |-> Facility,
               doorNames |-> DoorNameList,
               cameraNames |-> CameraNameList]
  /\ edLog = <<>>
  /\ IdleMain
  /\ IdleTurtle
  /\ IdleProfile
  /\ IdleTools
  /\ IdleRelay
  /\ IdleMarks
  /\ IdleQuery

\* one call of an operation: r is what it returned or threw; an operation
\* that throws leaves the data as they were
Applied(operation, id, r) ==
  /\ Len(edLog) < MaxOperations
  /\ edData' = IF r.threw = "none" THEN r.value ELSE edData
  /\ edLog' = Append(edLog, [operation |-> operation, id |-> id, threw |-> r.threw])
  /\ UNCHANGED <<varsTurtle, varsMain, varsProfile, varsTools, varsRelay, varsMarks, varsQuery>>

EditorAddDoor(slabId) ==
  Applied("addDoor", slabId, addDoor(edData, Str(slabId), NewDoorSpec))

EditorMoveDoor(doorId) ==
  Applied("moveDoor", doorId, moveDoor(edData, doorId, 1, 0))

EditorUpdateDoor(doorId, props) ==
  Applied("updateDoor", doorId, updateDoor(edData, doorId, props))

EditorDeleteDoor(doorId) ==
  Applied("deleteDoor", doorId, deleteDoor(edData, doorId))

EditorAddCamera(slabId) ==
  Applied("addCamera", slabId, addCamera(edData, Str(slabId), NewCameraSpec))

EditorMoveCamera(cameraId) ==
  Applied("moveCamera", cameraId, moveCamera(edData, cameraId, 1, 0))

EditorUpdateCamera(cameraId, props) ==
  Applied("updateCamera", cameraId, updateCamera(edData, cameraId, props))

EditorDeleteCamera(cameraId) ==
  Applied("deleteCamera", cameraId, deleteCamera(edData, cameraId))

NextEditor ==
  \/ \E slabId \in EditedSlabs : EditorAddDoor(slabId)
  \/ \E doorId \in EditedDoors : EditorMoveDoor(doorId)
  \/ \E doorId \in EditedDoors, props \in DoorProps : EditorUpdateDoor(doorId, props)
  \/ \E doorId \in EditedDoors : EditorDeleteDoor(doorId)
  \/ \E slabId \in EditedSlabs : EditorAddCamera(slabId)
  \/ \E cameraId \in EditedCameras : EditorMoveCamera(cameraId)
  \/ \E cameraId \in EditedCameras, props \in CameraProps : EditorUpdateCamera(cameraId, props)
  \/ \E cameraId \in EditedCameras : EditorDeleteCamera(cameraId)

SpecEditor == InitEditor /\ [][NextEditor]_vars

----------------------------------------------------------------------------
\* Properties of SpecTurtle

\* consecutive corners (wrap-around included) differ in exactly one coordinate
AxisAlignedClosed(P) ==
  \A i \in 1..Len(P) :
    LET a == P[i]
        b == P[NextIndex(i, Len(P))]
    IN  (a.x # b.x) # (a.y # b.y)

\* no edge (wrap-around included) is shorter than 0.001 ft
NoTinyEdge(P) ==
  \A i \in 1..Len(P) :
    LET a == P[i]
        b == P[NextIndex(i, Len(P))]
    IN  ~(Within001(b.x - a.x) /\ Within001(b.y - a.y))

\* the length of every edge (wrap-around included) is a representable
\* number, so that cornersToTurtle computes it without rounding
ExactEdges(P) ==
  \A i \in 1..Len(P) :
    LET a == P[i]
        b == P[NextIndex(i, Len(P))]
    IN  Fl(b.x - a.x) = b.x - a.x /\ Fl(b.y - a.y) = b.y - a.y

\* some consecutive pair (wrap-around included) differs in both x and y
HasPairDifferingInBoth(P) ==
  \E i \in 1..Len(P) :
    LET a == P[i]
        b == P[NextIndex(i, Len(P))]
    IN  a.x # b.x /\ a.y # b.y

\* some consecutive pair differs by at least 0.001 ft in both x and y
HasDiagonalPair(P) ==
  \E i \in 1..Len(P) :
    LET a == P[i]
        b == P[NextIndex(i, Len(P))]
    IN  ~Within001(b.x - a.x) /\ ~Within001(b.y - a.y)

RoundTripped ==
  /\ tpc # "failed"
  /\ tpc = "replayed" => replayed.threw = "none" /\ replayed.value = polygon

\* C1 (as claimed): for every axis-aligned closed polygon P,
\* turtleToCorners(P[0], cornersToTurtle(P)) is P, vertex by vertex and
\* with the same length.
C1_RoundTripEveryPolygon ==
  AxisAlignedClosed(polygon) => RoundTripped

\* C1 (amended): the round trip returns P for every axis-aligned closed
\* polygon P none of whose edges is shorter than the 0.001 ft tolerance and
\* all of whose edge lengths are representable numbers.
C1_RoundTripNoTinyEdge ==
  (AxisAlignedClosed(polygon) /\ NoTinyEdge(polygon) /\ ExactEdges(polygon))
    => RoundTripped

\* a rectangle with four distinct corners has been converted and replayed
C1_Witness ==
  /\ tpc = "replayed"
  /\ Len(polygon) = 4
  /\ Cardinality({polygon[i] : i \in 1..4}) = 4
  /\ AxisAlignedClosed(polygon)
  /\ NoTinyEdge(polygon)

\* C8 (as claimed): cornersToTurtle raises the diagonal-movement error
\* whenever a consecutive pair of corners (wrap-around included) differs in
\* both x and y, and returns no segment list for such input.
C8_DiagonalAlwaysRejected ==
  (tpc # "corners" /\ HasPairDifferingInBoth(polygon)) =>
    (turtle.threw = "DiagonalMovement" /\ tpc = "failed")

\* C8 (amended): cornersToTurtle raises the diagonal-movement error whenever
\* a consecutive pair of corners (wrap-around included) differs by at least
\* 0.001 ft in both x and y, and returns no segment list for such input.
C8_DiagonalRejected ==
  (tpc # "corners" /\ HasDiagonalPair(polygon)) =>
    (turtle.threw = "DiagonalMovement" /\ tpc = "failed")

\* a list whose only diagonal pair is the wrap-around pair has been rejected
C8_Witness ==
  /\ tpc = "failed"
  /\ Len(polygon) = 3
  /\ ~HasDiagonalPair(<<polygon[1], polygon[2], polygon[2]>>)
  /\ ~HasDiagonalPair(<<polygon[2], polygon[3], polygon[3]>>)
  /\ HasDiagonalPair(<<polygon[3], polygon[1]>>)

----------------------------------------------------------------------------
\* Properties of Spec

\* the closed shapes main normalizes: the slab, the v1 walls object and the
\* v2 walls of a closed type
NormalizedWallIndexes(s) ==
  {k \in 1..Len(s.walls) : s.isV2 => s.walls[k].type \in ClosedWallTypes}

ClosedShapesOf(s) == {s.slab} \cup {s.walls[k] : k \in NormalizedWallIndexes(s)}

\* the shape is given by corners only
CornersOnly(shape) == Len(shape.segments) = 0 /\ Len(shape.corners) > 0

\* every closed shape given by corners only is an axis-aligned closed polygon
\* with no edge shorter than 0.001 ft and with representable edge lengths
ExactClosedShapes(s) ==
  \A shape \in ClosedShapesOf(s) :
    CornersOnly(shape) =>
      /\ AxisAlignedClosed(shape.corners)
      /\ NoTinyEdge(shape.corners)
      /\ ExactEdges(shape.corners)

\* the second run of main did not fail, and what it wrote is what the first
\* run wrote
Regenerated == pc # "failed" /\ (pc = "written" => svg = firstSvg)

\* C2 (as claimed): for every specification the generator accepts, running
\* main again on the JSON embedded in the SVG it wrote succeeds and writes
\* an identical SVG.
C2_RegenerationIdentical == pass = 2 => Regenerated

\* C2 (amended): the regenerated SVG is identical when every closed shape
\* given by corners only is an axis-aligned closed polygon with no edge
\* shorter than 0.001 ft and with representable edge lengths.
C2_RegenerationIdenticalExact ==
  (pass = 2 /\ ExactClosedShapes(inputData)) => Regenerated

\* a rectangular wall given by corners only, with its four runs, has been
\* written a second time from the embedded JSON
C2_Witness ==
  /\ pass = 2
  /\ pc = "written"
  /\ ~inputData.isV2
  /\ Len(inputData.walls) = 1
  /\ CornersOnly(inputData.walls[1])
  /\ ExactClosedShapes(inputData)
  /\ Len(svg[1].walls) = 1
  /\ Len(svg[1].walls[1].runs) = 4
  /\ svg = firstSvg

----------------------------------------------------------------------------
\* generateWalls on rectangles

RECURSIVE SumLengths(_)
SumLengths(runs) ==
  IF runs = <<>> THEN 0 ELSE Head(runs).length + SumLengths(Tail(runs))

\* c lists the corners of a w x h rectangle clockwise from its north-west
\* corner
IsCanonicalRect(c) ==
  /\ Len(c) = 4
  /\ c[2].x > c[1].x
  /\ c[3].y > c[1].y
  /\ c = RectCorners(c[1].x, c[1].y, c[2].x - c[1].x, c[3].y - c[1].y)

\* c lists the corners of a rectangle, from any corner, in either sense
IsRect(c) ==
  /\ Len(c) = 4
  /\ \E k \in 0..3 : IsCanonicalRect(Rotated(c, k)) \/ IsCanonicalRect(Rotated(Reversed(c), k))

RectWidth(c) == LET allX == {c[i].x : i \in 1..4} IN MaxOf(allX) - MinOf(allX)

RectHeight(c) == LET allY == {c[i].y : i \in 1..4} IN MaxOf(allY) - MinOf(allY)

RectPerimeter(c) == 2 * (RectWidth(c) + RectHeight(c))

\* the walls generateWalls is called on, in the order of their groups in
\* the SVG
GeneratedWalls(s) ==
  IF s.isV2
  THEN WallsOfType(s.walls, "slabPerimeter") \o WallsOfType(s.walls, "perimeter")
  ELSE s.walls

\* the SVG of the first run is written and has a group for each wall
WallsWritten ==
  /\ pass = 1
  /\ pc = "written"
  /\ Len(svg[1].walls) = Len(GeneratedWalls(warehouseSpec))

\* C3 (as claimed): for every closed rectangular wall passed to
\* generateWalls, the lengths of the runs emitted plus one foot per corner
\* add up to the perimeter of the rectangle.
C3_RunsPlusOneFootPerCorner ==
  WallsWritten =>
    \A k \in 1..Len(svg[1].walls) :
      LET c == GeneratedWalls(warehouseSpec)[k].corners
      IN  IsRect(c) =>
            SumLengths(svg[1].walls[k].runs) + Len(svg[1].walls[k].brackets) * Foot
              = RectPerimeter(c)

\* C3 (amended): for every closed rectangular wall passed to generateWalls
\* whose corners are listed clockwise from the north-west corner and whose
\* sides are at least 2 ft, the lengths of the runs emitted plus two feet
\* per corner add up to the perimeter of the rectangle.
C3_RunsPlusTwoFeetPerCorner ==
  WallsWritten =>
    \A k \in 1..Len(svg[1].walls) :
      LET c == GeneratedWalls(warehouseSpec)[k].corners
      IN  (IsCanonicalRect(c) /\ RectWidth(c) >= 2 * Foot /\ RectHeight(c) >= 2 * Foot) =>
            SumLengths(svg[1].walls[k].runs) + Len(svg[1].walls[k].brackets) * 2 * Foot
              = RectPerimeter(c)

\* a 3 ft x 2.5 ft wall has been written with its four brackets and four runs
C3_Witness ==
  /\ WallsWritten
  /\ Len(svg[1].walls) = 1
  /\ IsCanonicalRect(GeneratedWalls(warehouseSpec)[1].corners)
  /\ RectWidth(GeneratedWalls(warehouseSpec)[1].corners) = 3 * Foot
  /\ RectHeight(GeneratedWalls(warehouseSpec)[1].corners) = 5 * Half
  /\ Len(svg[1].walls[1].brackets) = 4
  /\ Len(svg[1].walls[1].runs) = 4

----------------------------------------------------------------------------
\* Invalid directions

HasInvalidDirection(shape) ==
  \E i \in 1..Len(shape.segments) : shape.segments[i].direction \notin Directions

\* some segment of the specification names a direction that does not exist
NamesInvalidDirection(s) ==
  \/ HasInvalidDirection(s.slab)
  \/ \E k \in 1..Len(s.walls) : HasInvalidDirection(s.walls[k])
  \/ \E k \in 1..Len(s.partitionWalls) : HasInvalidDirection(s.partitionWalls[k])

\* C5 (as claimed): if a segment of the slab, of a closed wall or of a
\* partition wall names a direction outside north, south, east, west, the
\* run produces no SVG.
C5_InvalidDirectionNoSVG ==
  (pass = 1 /\ NamesInvalidDirection(inputData)) => (svg = <<>> /\ pc # "written")

\* C5, closed shapes only: if a segment of the slab or of a closed wall that
\* main normalizes names such a direction, the run fails and produces no SVG.
C5_ClosedShapeInvalidDirectionNoSVG ==
  (pass = 1 /\ pc # "parsed"
     /\ \E shape \in ClosedShapesOf(inputData) : HasInvalidDirection(shape))
    => (svg = <<>> /\ pc = "failed")

\* C5, where it does not hold: an SVG has been written for a specification
\* with a partition wall that goes "up"
C5_PartitionUpWritten ==
  /\ pass = 1
  /\ pc = "written"
  /\ Len(inputData.partitionWalls) = 1
  /\ HasInvalidDirection(inputData.partitionWalls[1])

----------------------------------------------------------------------------
\* The normalizer

\* the first run of main is past normalizeClosedShapes, which returned
NormalizedOK == pass = 1 /\ pc \in {"normalized", "validated", "written"}

\* the start normalizeSlabShape / normalizeClosedWall replays the segments of
\* a shape from
StartOf(shape) == IF shape.start # <<>> THEN shape.start[1] ELSE shape.corners[1]

\* what the claim promises of a shape given as given and normalized as out,
\* but for the replay
Normalized(given, out) ==
  /\ Len(out.corners) > 0
  /\ Len(out.segments) > 0
  /\ out.start = <<out.corners[1]>>
  /\ Len(given.segments) > 0 =>
       /\ out.segments = given.segments
       /\ out.corners = turtleToCorners(StartOf(given), given.segments).value
  /\ Len(given.segments) = 0 => out.corners = given.corners

\* replaying out.segments from out.start gives out.corners
Replays(out) == turtleToCorners(out.start[1], out.segments) = Returned(out.corners)

\* C6 (as claimed): after normalization every closed shape has corners and
\* segments, start is corners[0], replaying the segments from start gives
\* the corners, given segments are kept and replayed, and corners given
\* alone are kept.
C6_NormalizedAndReplays ==
  NormalizedOK =>
    /\ Normalized(inputData.slab, warehouseSpec.slab) /\ Replays(warehouseSpec.slab)
    /\ \A k \in NormalizedWallIndexes(inputData) :
         /\ Normalized(inputData.walls[k], warehouseSpec.walls[k])
         /\ Replays(warehouseSpec.walls[k])

\* corners given alone that cornersToTurtle turns into segments exactly
ExactIfCornersOnly(given) ==
  CornersOnly(given) =>
    /\ AxisAlignedClosed(given.corners)
    /\ NoTinyEdge(given.corners)
    /\ ExactEdges(given.corners)

\* C6 (amended): as claimed, the replay giving the corners when segments
\* were given or when the corners given alone form an axis-aligned closed
\* polygon with no edge shorter than 0.001 ft and representable edge lengths.
C6_NormalizedAndReplaysExact ==
  NormalizedOK =>
    /\ Normalized(inputData.slab, warehouseSpec.slab)
    /\ ExactIfCornersOnly(inputData.slab) => Replays(warehouseSpec.slab)
    /\ \A k \in NormalizedWallIndexes(inputData) :
         /\ Normalized(inputData.walls[k], warehouseSpec.walls[k])
         /\ ExactIfCornersOnly(inputData.walls[k]) => Replays(warehouseSpec.walls[k])

\* a wall given with segments and with corners that are not their replay
\* has been normalized, next to a slab given by corners only
C6_Witness ==
  /\ NormalizedOK
  /\ ~inputData.isV2
  /\ CornersOnly(inputData.slab)
  /\ Len(inputData.walls) = 1
  /\ Len(inputData.walls[1].segments) = 2
  /\ Len(inputData.walls[1].corners) = 2
  /\ inputData.walls[1].start = <<>>
  /\ warehouseSpec.walls[1].corners # inputData.walls[1].corners
  /\ Replays(warehouseSpec.walls[1])

MissingStart(shape) ==
  shape.form = "object" /\ Len(shape.segments) > 0
    /\ shape.start = <<>> /\ Len(shape.corners) = 0

Underspecified(shape) ==
  shape.form = "object" /\ Len(shape.segments) = 0 /\ Len(shape.corners) = 0

\* the run failed and wrote nothing, leaving the shape given as out
RejectedUnmodified(given, out) == pc = "failed" /\ svg = <<>> /\ out = given

\* normalization gets as far as wall k: the slab and the closed walls before
\* it are normalized without an error
ReachesWall(s, k) ==
  /\ normalizeSlabShape(s.slab).threw = "none"
  /\ \A j \in NormalizedWallIndexes(s) : j < k => normalizeClosedWall(s.walls[j]).threw = "none"

\* C7: a closed shape with segments but neither a start nor corners is
\* rejected for its missing start, a closed shape with neither segments nor
\* corners is rejected as underspecified; the shape is left as it was and
\* no SVG is written.
C7_Rejections ==
  (pass = 1 /\ pc # "parsed") =>
    /\ MissingStart(inputData.slab) =>
         RejectedUnmodified(inputData.slab, warehouseSpec.slab) /\ err = "MissingStartPosition"
    /\ Underspecified(inputData.slab) =>
         RejectedUnmodified(inputData.slab, warehouseSpec.slab) /\ err = "ShapeUnderspecified"
    /\ \A k \in NormalizedWallIndexes(inputData) :
         /\ MissingStart(inputData.walls[k]) =>
              /\ RejectedUnmodified(inputData.walls[k], warehouseSpec.walls[k])
              /\ ReachesWall(inputData, k) => err = "MissingStartPosition"
         /\ Underspecified(inputData.walls[k]) =>
              /\ RejectedUnmodified(inputData.walls[k], warehouseSpec.walls[k])
              /\ ReachesWall(inputData, k) => err = "ShapeUnderspecified"

\* a wall with segments and nothing to start from has been rejected after
\* the slab was normalized
C7_Witness ==
  /\ pass = 1
  /\ pc = "failed"
  /\ err = "MissingStartPosition"
  /\ ~inputData.isV2
  /\ warehouseSpec.slab # inputData.slab
  /\ Len(inputData.walls) = 1
  /\ MissingStart(inputData.walls[1])
  /\ warehouseSpec.walls = inputData.walls
  /\ svg = <<>>

----------------------------------------------------------------------------
\* The legacy walls array

\* the walls property of a v1 specification is a bare array of corners
LegacyArrayGiven(s) ==
  ~s.isV2 /\ Len(s.walls) = 1 /\ s.walls[1].form = "array" /\ Len(s.walls[1].elements) > 0

\* the same specification with its walls in the object form {id, corners}
WithObjectWalls(s) ==
  [s EXCEPT !.walls = <<Shape("object", "", "", <<>>, <<>>, s.walls[1].elements, <<>>)>>]

\* what main writes for specification s, when it writes
Rendering(s) ==
  LET n == normalizeClosedShapes(s)
  IN  IF n.threw # "none" THEN <<>>
      ELSE LET g == generateModelTSVG(n.value)
           IN  IF g.threw # "none" THEN <<>>
               ELSE <<[viewBox |-> g.value.viewBox, slab |-> g.value.slab,
                       walls |-> g.value.walls, partitions |-> g.value.partitions]>>

\* C9 (as claimed): a v1 specification whose walls property is an array of
\* corners passes normalization, validation and generation, and is drawn
\* as the same walls in the object form are.
C9_LegacyArrayRendered ==
  (pass = 1 /\ LegacyArrayGiven(inputData)) =>
    /\ pc # "failed"
    /\ pc = "written" =>
         [viewBox |-> svg[1].viewBox, slab |-> svg[1].slab,
          walls |-> svg[1].walls, partitions |-> svg[1].partitions]
           = Rendering(WithObjectWalls(inputData))[1]

\* C9, where it does not hold: normalizeClosedWall has rejected a
\* rectangle given as an array of four corners, which is drawn when given
\* in the object form
C9_ArrayRejected ==
  /\ pass = 1
  /\ pc = "failed"
  /\ err = "ShapeUnderspecified"
  /\ svg = <<>>
  /\ LegacyArrayGiven(inputData)
  /\ Len(inputData.walls[1].elements) = 4
  /\ Rendering(WithObjectWalls(inputData)) # <<>>

----------------------------------------------------------------------------
\* Rectangles given as segments

\* east w, south h, west w, north h with w, h > 0
IsRectSegments(sg) ==
  /\ Len(sg) = 4
  /\ [i \in 1..4 |-> sg[i].direction] = <<"east", "south", "west", "north">>
  /\ sg[1].length > 0 /\ sg[3].length = sg[1].length
  /\ sg[2].length > 0 /\ sg[4].length = sg[2].length

\* c is list d up to 0.001 ft on every coordinate
WithinTolerance(c, d) ==
  /\ Len(c) = Len(d)
  /\ \A i \in 1..Len(c) : Within001(c[i].x - d[i].x) /\ Within001(c[i].y - d[i].y)

CornerTypes(c) == [i \in 1..Len(c) |-> cornerData(c)[i].type]

\* the normalized shape out of the rectangle given has the four corners of
\* the rectangle, all exterior, of types NW, NE, SE, SW
RectangleClassified(given, out) ==
  LET st == StartOf(given)
      c  == out.corners
  IN  /\ WithinTolerance(c, RectCorners(st.x, st.y, given.segments[1].length,
                                        given.segments[2].length))
      /\ \A i \in 1..Len(c) : ~cornerData(c)[i].isInterior
      /\ CornerTypes(c) = <<"NW", "NE", "SE", "SW">>

\* C10 (as claimed): for any start (x,y) and any rectangle given as segments
\* east w, south h, west w, north h, normalization gives the corners (x,y),
\* (x+w,y), (x+w,y+h), (x,y+h), every corner is exterior and the corner
\* types are NW, NE, SE, SW in that order.
C10_RectangleClassified ==
  NormalizedOK =>
    /\ IsRectSegments(inputData.slab.segments) =>
         RectangleClassified(inputData.slab, warehouseSpec.slab)
    /\ \A k \in NormalizedWallIndexes(inputData) :
         IsRectSegments(inputData.walls[k].segments) =>
           RectangleClassified(inputData.walls[k], warehouseSpec.walls[k])

\* C10, where it does not hold: the brackets written for a wall given as a
\* rectangle of segments are NW, NE, SE and NW again, and the wall has lost
\* its west run, because the replayed fourth corner is not exactly below
\* the first
C10_FourthCornerMistyped ==
  /\ pass = 1
  /\ pc = "written"
  /\ ~inputData.isV2
  /\ Len(inputData.walls) = 1
  /\ IsRectSegments(inputData.walls[1].segments)
  /\ inputData.walls[1].segments[1].length = Foot
  /\ inputData.walls[1].segments[2].length = 3 * Foot
  /\ Len(svg[1].walls[1].brackets) = 4
  /\ [i \in 1..4 |-> svg[1].walls[1].brackets[i].type] = <<"NW", "NE", "SE", "NW">>
  /\ Len(svg[1].walls[1].runs) < 3

\* C10, exact arithmetic: the claim holds of the rectangles whose replay
\* returns exactly to the start
C10_RectangleClassifiedWhenExact ==
  NormalizedOK =>
    /\ (IsRectSegments(inputData.slab.segments)
          /\ IsCanonicalRect(warehouseSpec.slab.corners)) =>
         RectangleClassified(inputData.slab, warehouseSpec.slab)
    /\ \A k \in NormalizedWallIndexes(inputData) :
         (IsRectSegments(inputData.walls[k].segments)
            /\ IsCanonicalRect(warehouseSpec.walls[k].corners)) =>
           RectangleClassified(inputData.walls[k], warehouseSpec.walls[k])

----------------------------------------------------------------------------
\* Properties of SpecProfile

\* the doors that name the wall built
DoorsOfWall ==
  {i \in 1..Len(doorsArg) :
     doorsArg[i].wallId \in {<<wallArg.id>>, QualifiedId("mercury", wallArg.id)}}

\* the wall built is a single east-west run of length L that carries exactly
\* one door, of width W < L (its bayWidth), centered at the middle of the run
SingleCenteredDoor(L, W) ==
  /\ bpc = "built"
  /\ Len(wallArg.segments) = 1
  /\ wallArg.segments[1].direction \in {"east", "west"}
  /\ wallArg.segments[1].length = L
  /\ Cardinality(DoorsOfWall) = 1
  /\ \A i \in DoorsOfWall :
       /\ doorsArg[i].y = wallArg.start.y
       /\ doorsArg[i].x = (IF wallArg.segments[1].direction = "east"
                           THEN wallArg.start.x + L \div 2
                           ELSE wallArg.start.x - L \div 2)
       /\ doorsArg[i].bayWidth = W
  /\ 0 < W
  /\ W < L

\* the openings of a profile: where its outline runs forward above the
\* floor, the wall is open from the floor up to the outline
Gaps(profile) ==
  {[from |-> profile[i].x, to |-> profile[i + 1].x, top |-> profile[i].z] :
     i \in {j \in 1..(Len(profile) - 1) :
              /\ profile[j].z > 0
              /\ profile[j + 1].z = profile[j].z
              /\ profile[j + 1].x > profile[j].x}}

\* the outline of the profile runs along the floor from x = a to x = b
FloorBetween(profile, a, b) ==
  \E i \in 1..(Len(profile) - 1) :
    profile[i] = Vector3(a, 0) /\ profile[i + 1] = Vector3(b, 0)

RunLengths == {wll.segments[1].length : wll \in ProfileWalls}

DoorWidths == {door.bayWidth : door \in ProfileDoors}

\* C4 (as claimed): the profile of a single east-west run of length L with
\* one door of width W centered at its middle has exactly one gap, W wide,
\* centered on the door and as high as the wall, with wall from 0 to the
\* gap and from the gap to L.
C4_FullHeightGap ==
  \A L \in RunLengths, W \in DoorWidths :
    SingleCenteredDoor(L, W) =>
      /\ Len(meshes) = 1
      /\ Gaps(meshes[1].profile)
           = {[from |-> (L - W) \div 2, to |-> (L + W) \div 2, top |-> meshes[1].height]}
      /\ FloorBetween(meshes[1].profile, 0, (L - W) \div 2)
      /\ FloorBetween(meshes[1].profile, (L + W) \div 2, L)

\* C4 (amended): when the wall left on each side of the door is wider than
\* 0.1 ft, the profile is the outline of a 15 ft wall with exactly one gap,
\* W wide, centered on the door, from the floor to the 10 ft door height,
\* with wall from 0 to the gap, from the gap to L and above the gap.
C4_DoorHeightGap ==
  \A L \in RunLengths, W \in DoorWidths :
    (SingleCenteredDoor(L, W) /\ (L - W) * 10 > 2 * Foot) =>
      /\ Len(meshes) = 1
      /\ meshes[1].profile
           = <<Vector3(0, 0), Vector3((L - W) \div 2, 0),
               Vector3((L - W) \div 2, 10 * Foot), Vector3((L + W) \div 2, 10 * Foot),
               Vector3((L + W) \div 2, 0), Vector3(L, 0),
               Vector3(L, 15 * Foot), Vector3(0, 15 * Foot), Vector3(0, 0)>>
      /\ Gaps(meshes[1].profile)
           = {[from |-> (L - W) \div 2, to |-> (L + W) \div 2, top |-> 10 * Foot]}

\* the 20 ft run to the east with one bay door, 10 ft wide, at x = 10 has
\* been built: wall over 0-5, a gap over 5-15, wall over 15-20
C4_Witness ==
  /\ SingleCenteredDoor(20 * Foot, 10 * Foot)
  /\ wallArg.start.x = 0
  /\ wallArg.segments[1].direction = "east"
  /\ \E i \in DoorsOfWall : doorsArg[i].x = 10 * Foot
  /\ Len(doorsArg) = 2
  /\ meshes[1].kind = "extruded"
  /\ FloorBetween(meshes[1].profile, 0, 5 * Foot)
  /\ FloorBetween(meshes[1].profile, 15 * Foot, 20 * Foot)
  /\ \E g \in Gaps(meshes[1].profile) : g.from = 5 * Foot /\ g.to = 15 * Foot

----------------------------------------------------------------------------
\* Corner brackets of closed walls

\* some corner after the first has a direction pair neither table lists
\* (a straight-through or a reversing vertex)
HasUnmappedCorner(c) ==
  \E i \in 2..Len(c) :
    DirectionKey(c, i) \notin (IF isInteriorCorner(c, i) THEN InteriorKeys ELSE ExteriorKeys)

\* C11: for every closed shape passed to generateWalls, the brackets
\* emitted are as many as the corners of its corner list, and the i-th
\* bracket is the one of corner i (none skipped, none duplicated).
C11_BracketPerCorner ==
  WallsWritten =>
    \A k \in 1..Len(svg[1].walls) :
      LET c == GeneratedWalls(warehouseSpec)[k].corners
          b == svg[1].walls[k].brackets
      IN  /\ Len(b) = Len(c)
          /\ \A i \in 1..Len(b) : b[i].index = i

\* a wall with a corner the lookup tables do not list has been written,
\* with a bracket for each of its three corners
C11_Witness ==
  /\ WallsWritten
  /\ Len(svg[1].walls) = 1
  /\ Len(GeneratedWalls(warehouseSpec)[1].corners) = 3
  /\ HasUnmappedCorner(GeneratedWalls(warehouseSpec)[1].corners)
  /\ Len(svg[1].walls[1].brackets) = 3

----------------------------------------------------------------------------
\* Straight runs of partition walls

\* the SVG of the first run is written and has the group of one partition
\* wall, a path of n segments in the four directions
PartitionWritten(n) ==
  /\ pass = 1
  /\ pc = "written"
  /\ ~warehouseSpec.isV2
  /\ Len(warehouseSpec.partitionWalls) = 1
  /\ Len(warehouseSpec.partitionWalls[1].segments) = n
  /\ \A i \in 1..n : /\ warehouseSpec.partitionWalls[1].segments[i].direction \in Directions
                      /\ warehouseSpec.partitionWalls[1].segments[i].length > 0
  /\ Len(svg[1].partitions) = 1

\* the pieces of a partition group, per segment: the run that follows the
\* marker (end-cap or bracket) of the segment's first point, if there is one
RECURSIVE RunsBySegment(_)
RunsBySegment(pieces) ==
  IF Len(pieces) <= 1 THEN <<>>
  ELSE IF pieces[2].kind \in {"h", "v"}
       THEN <<<<pieces[2]>>>> \o RunsBySegment(SubSeq(pieces, 3, Len(pieces)))
       ELSE <<<<>>>> \o RunsBySegment(Tail(pieces))

\* the path of the partition written: its segments, its vertices and its runs
PathSegments == warehouseSpec.partitionWalls[1].segments

PathPoints == convertTurtleToPoints(warehouseSpec.partitionWalls[1])

PathRuns == RunsBySegment(svg[1].partitions[1].pieces)

\* the coordinate of a point along the axis of a direction of travel
Along(point, dir) == IF dir \in {"east", "west"} THEN point.x ELSE point.y

\* the interval a run covers along its axis
RunInterval(run) ==
  IF run.kind = "h" THEN <<run.x, run.x + run.length>> ELSE <<run.y, run.y + run.length>>

\* the interval left of the segment from a to b (coordinates along the axis
\* of dir) when ra is reserved at a and rb at b
Reserved(a, b, dir, ra, rb) ==
  IF dir \in {"east", "south"} THEN <<a + ra, b - rb>> ELSE <<b + rb, a - ra>>

\* the room of an end-cap and of a corner bracket
EndcapRoom == Foot \div 2

BracketRoom == Foot

\* segment k (1-based) of the path has a run exactly over the interval iv,
\* or no run if iv is empty
RunCovers(k, iv) ==
  /\ (PathRuns[k] # <<>>) <=> (iv[2] > iv[1])
  /\ PathRuns[k] # <<>> =>
       /\ PathRuns[k][1].kind = (IF PathSegments[k].direction \in {"east", "west"} THEN "h" ELSE "v")
       /\ RunInterval(PathRuns[k][1]) = iv

\* the interval the claims give segment k with ra reserved at its first
\* point and rb at its second
ReservedOf(k, ra, rb) ==
  Reserved(Along(PathPoints[k], PathSegments[k].direction),
           Along(PathPoints[k + 1], PathSegments[k].direction),
           PathSegments[k].direction, ra, rb)

\* segments k and k + 1 are perpendicular: the path turns at their joint
TurnsAfter(k) ==
  (PathSegments[k].direction \in {"east", "west"}) # (PathSegments[k + 1].direction \in {"east", "west"})

\* C12: the run of a single-segment path covers the segment minus 0.5 ft at
\* each end; the run of the first segment of a longer path starts 0.5 ft in
\* from the start point and stops 1 ft short of the joint, in each of the
\* four directions of travel.
C12_SingleAndFirstRun ==
  \A n \in 1..(MaxPartitionSegments + 1) :
    PartitionWritten(n) =>
      RunCovers(1, ReservedOf(1, EndcapRoom, IF n = 1 THEN EndcapRoom ELSE BracketRoom))

\* a single 3 ft segment going west has its 2 ft run, and so has (with
\* 1.5 ft) the first segment going north of a longer path
C12_Witness ==
  \/ /\ PartitionWritten(1)
     /\ PathSegments[1] = Seg("west", 3 * Foot)
     /\ PathRuns = <<(<<WallPiece("h", 5 * Foot + EndcapRoom, 8 * Foot, 2 * Foot)>>)>>
  \/ /\ PartitionWritten(2)
     /\ PathSegments[1] = Seg("north", 3 * Foot)
     /\ PathRuns[1] = <<WallPiece("v", 8 * Foot, 6 * Foot, Foot + EndcapRoom)>>

\* C13 (as claimed): the run of the last segment of a multi-segment path
\* starts 1 ft after the joint and stops 0.5 ft short of the free endpoint,
\* in each of the four directions of travel.
C13_LastRunMirrorsFirst ==
  \A n \in 2..(MaxPartitionSegments + 1) :
    (PartitionWritten(n) /\ TurnsAfter(n - 1)) =>
      RunCovers(n, ReservedOf(n, BracketRoom, EndcapRoom))

\* the end-cap of the free endpoint: the last piece of the group
EndEndcap == svg[1].partitions[1].pieces[Len(svg[1].partitions[1].pieces)]

\* C13 (amended): when the path turns into its last segment, the run of a
\* last segment going east or south starts 1 ft after the joint and stops
\* 0.5 ft short of the free endpoint, where the end-cap begins; the run of
\* a last segment going west or north starts 1.5 ft after the free endpoint,
\* where the end-cap placed 1 ft after that endpoint ends, and stops at the
\* joint.  In the four directions the run of a segment of length L > 1.5 ft
\* measures L - 1.5 ft.
C13_LastRunBetweenBracketAndEndcap ==
  \A n \in 2..(MaxPartitionSegments + 1) :
    (PartitionWritten(n) /\ TurnsAfter(n - 1)) =>
      LET dir == PathSegments[n].direction
      IN  /\ EndEndcap.kind = "endcap" /\ EndEndcap.dir = dir
          /\ dir \in {"east", "south"} =>
                /\ RunCovers(n, ReservedOf(n, BracketRoom, EndcapRoom))
                /\ Along(EndEndcap, dir) = Along(PathPoints[n + 1], dir) - EndcapRoom
          /\ dir \in {"west", "north"} =>
                /\ RunCovers(n, ReservedOf(n, 0, BracketRoom + EndcapRoom))
                /\ Along(EndEndcap, dir) = Along(PathPoints[n + 1], dir) + BracketRoom
          /\ PathSegments[n].length > BracketRoom + EndcapRoom =>
                /\ PathRuns[n] # <<>>
                /\ PathRuns[n][1].length = PathSegments[n].length - (BracketRoom + EndcapRoom)

\* a path north then west has been written: the run of the 3 ft last
\* segment goes from 1.5 ft after the free endpoint to the joint
C13_Witness ==
  /\ PartitionWritten(2)
  /\ PathSegments = <<Seg("north", 3 * Foot), Seg("west", 3 * Foot)>>
  /\ PathRuns[2] = <<WallPiece("h", 6 * Foot + EndcapRoom, 5 * Foot, Foot + EndcapRoom)>>
  /\ EndEndcap = EndcapPiece("west", 6 * Foot, 5 * Foot)

\* the bracket at vertex k (1-based point index) of the path: pieces are
\* one marker per point, each followed by the run of its segment if any
BracketAt(k) ==
  LET before == Len(SelectSeq(SubSeq(PathRuns, 1, k - 1), LAMBDA r : r # <<>>))
  IN  svg[1].partitions[1].pieces[k + before]

\* C14 (as claimed): the run of a segment that is neither first nor last
\* reserves 1 ft at both ends: a middle segment of length L has a run of
\* length L - 2 between the two corner brackets.
C14_MiddleRunReservesBothEnds ==
  \A n \in 3..(MaxPartitionSegments + 1) :
    PartitionWritten(n) =>
      \A k \in 2..(n - 1) :
        (TurnsAfter(k - 1) /\ TurnsAfter(k)) =>
          RunCovers(k, ReservedOf(k, BracketRoom, BracketRoom))

\* C14, where it does not hold: a path north, east, north has been written;
\* the run of its 3 ft middle segment is 2 ft long, not 1 ft, and reaches
\* the joint at its far end, across the 1 ft bracket placed before that joint
C14_MiddleRunOverlapsBracket ==
  /\ PartitionWritten(3)
  /\ PathSegments = <<Seg("north", 3 * Foot), Seg("east", 3 * Foot), Seg("north", 3 * Foot)>>
  /\ PathRuns[2] = <<WallPiece("h", 9 * Foot, 5 * Foot, 2 * Foot)>>
  /\ BracketAt(3) = CornerPiece("SE", 10 * Foot, 5 * Foot)
  /\ RunInterval(PathRuns[2][1])[2] = BracketAt(3).x + BracketRoom

----------------------------------------------------------------------------
\* Validation of names

\* the specification main() was started on in this pass
PassInput == IF pass = 1 THEN inputData ELSE parse(firstSvg[1])

\* main() without its validation pass: normalize, then generate
GenerateNormalized(normalized) ==
  IF normalized.threw # "none" THEN Thrown(normalized.threw)
  ELSE generateModelTSVG(normalized.value)

WithoutValidation(s) == GenerateNormalized(normalizeClosedShapes(s))

----------------------------------------------------------------------------
\* Properties of SpecCli

\* the command printed a success result and exited with code 0
AddDoorSucceeded == cpc = "exit0" /\ Len(cliResult) = 1 /\ cliResult[1].success

\* the door of the JSON printed
PrintedDoor == cliResult[1].component[1]

\* the door added, as stored in the slab of the file saved
StoredDoor ==
  LET doors == cliFile.slabs[findSlab(cliFile, cliOptions["slab"]).value].doors
  IN  doors[Len(doors)]

\* the door options given on the command line
OptionsGiven == {k \in SpecKeys : cliOptions[OptionOf(k)].kind # "undefined"}

\* C16: add-door keeps what it is given: when the command succeeds, every
\* door option passed on the command line is a member, with the value
\* passed, of the door stored in the slab and of the door printed in the
\* command's JSON output.
C16_AddDoorKeepsOptions ==
  AddDoorSucceeded =>
    \A k \in OptionsGiven :
      /\ StoredDoor[k] = cliOptions[OptionOf(k)]
      /\ PrintedDoor[k] = cliOptions[OptionOf(k)]

\* the documented bay-door options were given, the command succeeded, and
\* neither the door stored nor the door printed has them
C16_DocumentedOptionsDropped ==
  /\ AddDoorSucceeded
  /\ cliOptions["type"] = Str("bay")
  /\ cliOptions["openingWidth"] = Num(10)
  /\ cliOptions["openingHeight"] = Num(12)
  /\ cliOptions["hardwareSide"] = Str("exterior")
  /\ cliOptions["hasDockSeal"] = Str("true")
  /\ \A k \in {"openingWidth", "openingHeight", "hardwareSide", "hasDockSeal"} :
       StoredDoor[k] = Absent /\ PrintedDoor[k] = Absent
  /\ PrintedDoor["wallId"] = Str("mercury_perimeter")
  /\ PrintedDoor["x"] = Num(180)

----------------------------------------------------------------------------
\* Properties of SpecRect

AllCells == GridIndex \X GridIndex

BlackCells == {c \in AllCells : grid[c[2]][c[1]]}

\* the rectangles that contain a cell
RectanglesOver(c) == {k \in 1..Len(rectangles) : c \in CellsOf(rectangles[k])}

\* the dots of a cell, as an interval in each axis
CellLeft(c) == LEFT_MARGIN_DOTS + CellsToDots(c[1])

CellTop(c) == TOP_MARGIN_DOTS + CellsToDots(c[2])

\* the boxes that draw on some dot of a cell
BoxesOver(c) ==
  {k \in 1..Len(zplBoxes) :
     /\ zplBoxes[k].xDots < CellLeft(<<c[1] + 1, c[2]>>)
     /\ CellLeft(c) < zplBoxes[k].xDots + zplBoxes[k].widthDots
     /\ zplBoxes[k].yDots < CellTop(<<c[1], c[2] + 1>>)
     /\ CellTop(c) < zplBoxes[k].yDots + zplBoxes[k].heightDots}

\* C17: rectangle decomposition is an exact cover: the rectangles returned
\* by findRectangles lie in the grid, contain only black cells, and every
\* black cell is in exactly one of them (so they are pairwise disjoint);
\* in the ZPL generated, a white cell is drawn on by no box and a black
\* cell by exactly one.
C17_ExactCover ==
  /\ rpc \in {"found", "generated"} =>
       /\ \A k \in 1..Len(rectangles) :
            /\ rectangles[k].width >= 1
            /\ rectangles[k].height >= 1
            /\ CellsOf(rectangles[k]) \subseteq BlackCells
       /\ \A c \in AllCells :
            Cardinality(RectanglesOver(c)) = IF c \in BlackCells THEN 1 ELSE 0
  /\ rpc = "generated" =>
       /\ Len(zplBoxes) = Len(rectangles)
       /\ \A c \in AllCells :
            Cardinality(BoxesOver(c)) = IF c \in BlackCells THEN 1 ELSE 0

\* a grid whose black cells are not one rectangle: a rectangle stopped by
\* cells taken before, one more than one cell wide and high, a white cell,
\* and the boxes generated
C17_Witness ==
  /\ rpc = "generated"
  /\ Len(zplBoxes) >= 2
  /\ BlackCells # AllCells
  /\ \E k \in 1..Len(rectangles) : rectangles[k].width >= 2 /\ rectangles[k].height >= 2
  /\ \E k \in 2..Len(rectangles) :
       /\ rectangles[k].x + rectangles[k].width < GridSize
       /\ <<rectangles[k].x + rectangles[k].width, rectangles[k].y>> \in BlackCells

----------------------------------------------------------------------------
\* Properties of SpecZpl

\* the range of tag IDs of a family
FamilyRange(family) ==
  CASE family = "tagStandard52h13" -> 0..48813
    [] family = "36h11" -> 0..2286
    [] family = "tagStandard41h12" -> 0..4294

\* main ended on a command line that names an existing file, a family and
\* a tag ID
TagIdGiven ==
  /\ zpc = "done"
  /\ Len(zplArgs.args) = 3
  /\ zplArgs.args[1] \in zplArgs.existing
  /\ ~ parseInt(zplArgs.args, 3).nan

\* C18: tag-ID range check per family: a tag ID outside the range of the
\* selected family (0..48813 for tagStandard52h13, 0..2286 for 36h11,
\* 0..4294 for tagStandard41h12) is rejected with the error message, exit
\* code 1 and no ZPL file written, and a tag ID inside it is accepted.
C18_RangePerFamily ==
  TagIdGiven =>
    IF parseInt(zplArgs.args, 3).n \in FamilyRange(zplArgs.args[2])
      THEN zplMessage # RangeMessage
      ELSE zplMessage = RangeMessage /\ zplExit = <<1>> /\ zplFiles = {}

\* tag ID 3000 of family 36h11, whose range ends at 2286, was accepted and
\* its ZPL file written
C18_OutOfRangeAccepted ==
  /\ TagIdGiven
  /\ zplArgs.args = <<"apriltag.svg", "36h11", "3000">>
  /\ zplExit = <<0>>
  /\ zplMessage = ""
  /\ zplFiles = {"apriltag_36h11_03000.zpl"}

----------------------------------------------------------------------------
\* Properties of SpecServer

\* the folder is set up as the READMEs describe, and both requests were
\* answered
DocumentedLayout ==
  /\ specResponse # <<>>
  /\ svgResponse # <<>>
  /\ {"warehouse.json", "metadata.json", "warehouse.svg"} \subseteq folder.files

\* C19: the documented warehouse layout is servable: for a folder holding
\* warehouse.json, metadata.json and a generated warehouse.svg, GET
\* /api/warehouses/:id/svg answers 200 with the SVG whenever GET
\* /api/warehouses/:id answers 200.
C19_DocumentedLayoutServable ==
  (DocumentedLayout /\ specResponse[1].status = 200) =>
    svgResponse[1].status = 200 /\ svgResponse[1].type = "image/svg+xml"

\* the folder holds exactly the three documented files; the specification
\* is served and the SVG is answered 404
C19_SvgNotFound ==
  /\ DocumentedLayout
  /\ folder.files = {"warehouse.json", "metadata.json", "warehouse.svg"}
  /\ specResponse[1] = Response(200, "application/json", "warehouse.json")
  /\ svgResponse[1].status = 404

----------------------------------------------------------------------------
\* Properties of SpecWall

\* a door lies on a wall segment: on the line of the edge, between its
\* ends
LiesOn(door, segment) ==
  \/ /\ segment.p1.y = segment.p2.y
     /\ door.y = segment.p1.y
     /\ Min(segment.p1.x, segment.p2.x) <= door.x
     /\ door.x <= Max(segment.p1.x, segment.p2.x)
  \/ /\ segment.p1.x = segment.p2.x
     /\ door.x = segment.p1.x
     /\ Min(segment.p1.y, segment.p2.y) <= door.y
     /\ door.y <= Max(segment.p1.y, segment.p2.y)

\* the segments a door was selected for
SegmentsCutBy(door) ==
  {k \in 1..Len(wallSegments) :
     \E j \in 1..Len(wallSegments[k].doors) : wallSegments[k].doors[j] = door}

\* the segments a door lies on
SegmentsUnder(door) == {k \in 1..Len(wallSegments) : LiesOn(door, wallSegments[k])}

\* C20: a door cuts exactly one segment: for a closed rectangular
\* perimeter wall and a door whose wallId matches it and whose (x, y) lies
\* on one edge of the wall, the door is selected for the segment of that
\* edge and for no other segment, so that exactly one segment has its
\* cutout.
C20_DoorCutsOneSegment ==
  wpc = "built" =>
    \A d \in 1..Len(perimeterDoors) :
      (/\ perimeterDoors[d].wallId = perimeter.id
       /\ Cardinality(SegmentsUnder(perimeterDoors[d])) = 1)
        => SegmentsCutBy(perimeterDoors[d]) = SegmentsUnder(perimeterDoors[d])

\* the door 2 ft from the north-west corner on the north edge is cut out
\* of the north segment and of the west segment
C20_DoorCutsTwoSegments ==
  /\ wpc = "built"
  /\ Len(wallSegments) = 4
  /\ \E d \in 1..Len(perimeterDoors) :
       /\ perimeterDoors[d].wallId = perimeter.id
       /\ perimeterDoors[d].x = 2 * Foot
       /\ perimeterDoors[d].y = 0
       /\ SegmentsUnder(perimeterDoors[d]) = {1}
       /\ SegmentsCutBy(perimeterDoors[d]) = {1, 4}
       /\ wallSegments[4].kind = "extruded"

----------------------------------------------------------------------------
\* Properties of SpecServer: the decision table of GET /:id/svg

\* the response that serves a file of the folder as the SVG
ServesFile(name) == svgResponse[1] = Response(200, "image/svg+xml", name)

\* the response that serves what the generator script printed
ServesGenerated ==
  /\ svgResponse[1].status = 200
  /\ svgResponse[1].type = "image/svg+xml"
  /\ svgResponse[1].body \notin folder.files

HasFile(name) == name \in folder.files

----------------------------------------------------------------------------
\* Properties of SpecRelay

\* C22: relay scoping: a test, reload-warehouse or query message naming
\* warehouse W is delivered only to open connections whose most recent
\* register message named W, never to a connection that is unregistered
\* or registered for another warehouse.
C22_RelayScoped ==
  \A k \in 1..Len(relayLog) :
    \A c \in relayLog[k].to :
      relayLog[k].registeredAs[c] = relayLog[k].warehouseId

\* a query naming lodge was delivered to a connection whose most recent
\* register message named denver
C22_DeliveredToOtherWarehouse ==
  /\ Len(relayLog) = 1
  /\ relayLog[1].type = "query"
  /\ relayLog[1].warehouseId = "lodge"
  /\ \E c \in relayLog[1].to : relayLog[1].registeredAs[c] = "denver"

\* C28: registry cleanup: after a connection's close event the closed
\* connection is a member of no warehouse's client set, and the clients
\* map never holds an empty set.
C28_RegistryCleanup ==
  /\ \A c \in Connections :
       readyState[c] = "closed" => \A w \in DOMAIN clients : c \notin clients[w]
  /\ \A w \in DOMAIN clients : clients[w] # {}

\* connection 1 registered for lodge and then for denver and was closed:
\* it is still in the client set of lodge
C28_ClosedConnectionKept ==
  /\ readyState[1] = "closed"
  /\ clientWarehouseId[1] = "denver"
  /\ MapHas(clients, "lodge")
  /\ clients["lodge"] = {1}
  /\ ~ MapHas(clients, "denver")

----------------------------------------------------------------------------
\* Properties of SpecMarks

\* the mark-position messages for a warehouse among the first n handled
MarksBefore(warehouseId, n) == {k \in 1..n : markLog[k].warehouseId = warehouseId}

\* the largest member of a set of numbers that is not empty
Latest(S) == CHOOSE k \in S : \A j \in S : j <= k

\* C24: the marked position is last-writer-wins per warehouse: GET
\* /api/warehouses/:id/marked-position answers 404 until a mark-position
\* message for that id has been handled, and from then on the camera,
\* position and timestamp of the most recent mark-position message for
\* that id, whatever was marked for other ids.
C24_LastMarkWins ==
  \A r \in 1..Len(markedResponse) :
    LET response == markedResponse[r].response
        marks == MarksBefore(response.warehouseId, markedResponse[r].after)
    IN  IF marks = {}
          THEN response.status = 404 /\ response.position = <<>>
          ELSE /\ response.status = 200
               /\ response.position = <<markLog[Latest(marks)].data>>

\* lodge was marked twice with different data and denver after that, and
\* the request for lodge was answered with the second mark of lodge
C24_Witness ==
  /\ Len(markedResponse) = 1
  /\ markedResponse[1].after = 3
  /\ markedResponse[1].response.warehouseId = "lodge"
  /\ markLog[1].warehouseId = "lodge"
  /\ markLog[2].warehouseId = "lodge"
  /\ markLog[3].warehouseId = "denver"
  /\ markLog[1].data # markLog[2].data
  /\ markLog[3].data # markLog[2].data
  /\ markedResponse[1].response.position = <<markLog[2].data>>

----------------------------------------------------------------------------
\* Properties of SpecQueryLive

\* the positions in qReceived of the query-responses with the id of the tool
OwnResponses ==
  {k \in 1..Len(qReceived) :
     /\ qReceived[k].json = "object"
     /\ qReceived[k].type = "query-response"
     /\ qReceived[k].queryId = queryId}

QuerySent == qSent # <<>>

QueryExited == qpc = "exited"

\* while the tool is waiting, nothing it received was an own response; once
\* it has exited after sending, it exited with 0 and the result of the own
\* response, which is the first own and the last message received, or with
\* 1 on the timeout or a socket error without an own response received
QueryOutcome ==
  QuerySent =>
    IF QueryExited
      THEN \/ /\ qResult[1].code = 0
              /\ OwnResponses = {Len(qReceived)}
              /\ qResult[1].stdout =
                   (IF ~qReceived[Len(qReceived)].result.defined
                      THEN "undefined"
                      ELSE "{\n  \"target\": \"" \o qReceived[Len(qReceived)].result.target \o "\"\n}")
           \/ /\ qResult[1].code = 1
              /\ OwnResponses = {}
              /\ qResult[1].stderr \in {"Query timeout - no response received", "WebSocket error:"}
      ELSE OwnResponses = {} /\ qResult = <<>>

\* C23: the query tool always terminates and matches its own reply: after
\* modelt-query has connected and sent its query the process eventually
\* exits, with code 0 after printing the result of the first query-response
\* carrying its own queryId, or with code 1 on the timeout or a socket
\* error; query-responses with any other queryId are ignored and never
\* cause an exit.
C23_QueryTerminates == []QueryOutcome /\ (QuerySent ~> QueryExited)

\* the tool received the response to another query, then a text that is no
\* JSON, then its own response, and exited with 0
C23_Witness ==
  /\ QueryExited
  /\ Len(qReceived) = 3
  /\ qReceived[1].type = "query-response"
  /\ qReceived[1].queryId # queryId
  /\ qReceived[2].json = "invalid"
  /\ OwnResponses = {3}
  /\ qResult[1].code = 0

----------------------------------------------------------------------------
\* The lookup tables of inferCornerType and the cross product

\* the path turns by 90 degrees at corner i: one of the two edges meeting
\* there is horizontal, the other vertical, and neither is empty
Turn90(c, i) ==
  LET prev    == c[PrevIndex(i, Len(c))]
      current == c[i]
      next    == c[NextIndex(i, Len(c))]
  IN  \/ /\ prev.y = current.y /\ prev.x # current.x
         /\ next.x = current.x /\ next.y # current.y
      \/ /\ prev.x = current.x /\ prev.y # current.y
         /\ next.y = current.y /\ next.x # current.x

\* every edge of the closed path, the closing one included, is horizontal
\* or vertical and not empty
AxisAligned(c) ==
  \A i \in 1..Len(c) :
    LET a == c[i]
        b == c[NextIndex(i, Len(c))]
    IN  (a.x = b.x /\ a.y # b.y) \/ (a.y = b.y /\ a.x # b.x)

\* C25: the lookup tables agree with the cross-product test: at every
\* corner after the first where the path of a wall makes a 90-degree turn,
\* the (incoming, outgoing) pair is listed in the exterior table exactly
\* when isInteriorCorner is false and in the interior table exactly when it
\* is true, so the bracket written has the type the table gives and the NW
\* default is left to the first corner and to corners with no turn.
C25_TablesAgreeWithCross ==
  WallsWritten =>
    \A k \in 1..Len(svg[1].walls) :
      LET c == GeneratedWalls(warehouseSpec)[k].corners
          b == svg[1].walls[k].brackets
      IN  \A i \in 2..Len(c) :
            Turn90(c, i) =>
              /\ DirectionKey(c, i) \in ExteriorKeys <=> ~isInteriorCorner(c, i)
              /\ DirectionKey(c, i) \in InteriorKeys <=> isInteriorCorner(c, i)
              /\ i <= Len(b)
              /\ b[i].type = (IF DirectionKey(c, i) \in InteriorKeys
                                THEN interiorCornerMap(DirectionKey(c, i))
                                ELSE exteriorCornerMap(DirectionKey(c, i)))

\* the L-shaped wall has been written from its north-west corner clockwise:
\* every edge is horizontal or vertical, corner 4 (the notch) is the one
\* interior corner, and the brackets have the types the tables give
C25_Witness ==
  /\ WallsWritten
  /\ Len(svg[1].walls) = 1
  /\ LET c == GeneratedWalls(warehouseSpec)[1].corners
         b == svg[1].walls[1].brackets
     IN  /\ Len(c) = 6
         /\ AxisAligned(c)
         /\ \A i \in 2..6 : Turn90(c, i)
         /\ {i \in 2..6 : isInteriorCorner(c, i)} = {4}
         /\ DirectionKey(c, 4) = <<"West", "South">>
         /\ DirectionKey(c, 2) = <<"East", "South">>
         /\ [i \in 1..6 |-> b[i].type] = <<"NW", "NE", "SE", "NW", "SE", "SW">>

----------------------------------------------------------------------------
\* Extent of the wall profile

\* the vertices a profile has before it goes up the far side: the trace
\* along the floor, up and over the doors
FloorTrace(profile) == SubSeq(profile, 1, Len(profile) - 3)

\* C26 (as claimed): every vertex of a profile returned by
\* generateWallProfileWithDoors for a segment of length L and the doors
\* findDoorsOnSegment accepted for it lies within 0..L along the segment,
\* and the trace along the floor never steps backwards.
C26_ProfileInsideSegment ==
  bpc = "built" =>
    \A k \in 1..Len(meshes) :
      meshes[k].kind = "extruded" =>
        LET profile == meshes[k].profile
            trace   == FloorTrace(profile)
        IN  /\ \A i \in 1..Len(profile) :
                 0 <= profile[i].x /\ profile[i].x <= meshes[k].length
            /\ \A i \in 1..(Len(trace) - 1) : trace[i].x <= trace[i + 1].x

\* C26, where it does not hold: the 20 ft run to the east with one door,
\* 10 ft wide, at the start of the run has a profile that starts at 0,
\* steps back to 5 ft before the start of the run and opens the door there
C26_ProfileBeforeStart ==
  /\ bpc = "built"
  /\ Len(wallArg.segments) = 1
  /\ wallArg.segments[1].direction = "east"
  /\ Len(doorsArg) = 1
  /\ doorsArg[1].x = wallArg.start.x
  /\ doorsArg[1].bayWidth = 10 * Foot
  /\ Len(meshes) = 1
  /\ meshes[1].kind = "extruded"
  /\ meshes[1].length = 20 * Foot
  /\ meshes[1].profile
       = <<Vector3(0, 0), Vector3(-(5 * Foot), 10 * Foot), Vector3(5 * Foot, 10 * Foot),
           Vector3(5 * Foot, 0), Vector3(20 * Foot, 0), Vector3(20 * Foot, 15 * Foot),
           Vector3(0, 15 * Foot), Vector3(0, 0)>>

----------------------------------------------------------------------------
\* Footprints of the pieces of a partition wall

\* the smallest rectangle around the <rect> elements of a piece: a run is
\* 1 ft wide and as long as its length, a bracket 1 ft x 1 ft, an end-cap
\* 0.5 ft along its direction and 1 ft across
Footprint(piece) ==
  LET w == CASE piece.kind = "h" -> piece.length
             [] piece.kind = "v" -> Foot
             [] piece.kind = "corner" -> Foot
             [] piece.kind = "endcap" ->
                  IF piece.dir \in {"east", "west"} THEN Foot \div 2 ELSE Foot
      h == CASE piece.kind = "h" -> Foot
             [] piece.kind = "v" -> piece.length
             [] piece.kind = "corner" -> Foot
             [] piece.kind = "endcap" ->
                  IF piece.dir \in {"east", "west"} THEN Foot ELSE Foot \div 2
  IN  [left |-> piece.x, right |-> piece.x + w, top |-> piece.y, bottom |-> piece.y + h]

\* two footprints share some area
Overlap(a, b) ==
  /\ a.left < b.right /\ b.left < a.right
  /\ a.top < b.bottom /\ b.top < a.bottom

\* the path turns at every joint and every segment is at least 2 ft long
TurningPath(n) ==
  /\ \A k \in 1..(n - 1) : TurnsAfter(k)
  /\ \A k \in 1..n : PathSegments[k].length >= 2 * Foot

\* C27 (as claimed): the footprints of the pieces written for a partition
\* path that turns by 90 degrees at every joint and has no segment shorter
\* than 2 ft (runs, corner brackets, end-caps) do not overlap one another.
C27_PiecesDisjoint ==
  \A n \in 1..(MaxPartitionSegments + 1) :
    (PartitionWritten(n) /\ TurningPath(n)) =>
      LET pieces == svg[1].partitions[1].pieces
      IN  \A i, j \in 1..Len(pieces) :
            i < j => ~Overlap(Footprint(pieces[i]), Footprint(pieces[j]))

\* C27, where it does not hold: for the path north 3, east 3, north 3 from
\* (8, 8) the run of the middle segment lies over x 9..11, y 5..6 and the
\* bracket of the second joint over x 10..11, y 5..6: they share 1 sq ft
C27_RunOverBracket ==
  /\ PartitionWritten(3)
  /\ TurningPath(3)
  /\ PathPoints[1] = Pt(8 * Foot, 8 * Foot)
  /\ [k \in 1..3 |-> PathSegments[k].direction] = <<"north", "east", "north">>
  /\ Footprint(PathRuns[2][1])
       = [left |-> 9 * Foot, right |-> 11 * Foot, top |-> 5 * Foot, bottom |-> 6 * Foot]
  /\ Footprint(BracketAt(3))
       = [left |-> 10 * Foot, right |-> 11 * Foot, top |-> 5 * Foot, bottom |-> 6 * Foot]
  /\ Overlap(Footprint(PathRuns[2][1]), Footprint(BracketAt(3)))

----------------------------------------------------------------------------
\* The ModelT file after a command that failed

\* C29 (as claimed): whenever the command ends by printing
\* {success: false, error} and exiting with code 1, the ModelT file has the
\* content it had before the command.
C29_FailureLeavesFile ==
  cpc = "exit1" =>
    /\ cliResult[1].success = FALSE
    /\ cliFile = cliFileBefore

\* C29, where it does not hold: add-door for the slab mercury, which had no
\* door, ended with "Failed to regenerate SVG" and exit code 1, and the
\* file saved has the door washington in that slab
C29_SavedBeforeFailure ==
  /\ cpc = "exit1"
  /\ cliResult = <<Failure("Failed to regenerate SVG")>>
  /\ cliFileBefore.hasSlabs
  /\ cliFileBefore.slabs[1].id = "mercury"
  /\ cliFileBefore.slabs[1].doors = <<>>
  /\ Len(cliFile.slabs[1].doors) = 1
  /\ cliFile.slabs[1].doors[1]["id"] = Str("washington")

----------------------------------------------------------------------------
\* Properties of SpecEditor

\* no two components of the list have the same id
DistinctIds(components) ==
  \A i, j \in 1..Len(components) :
    i # j => components[i]["id"] # components[j]["id"]

\* C30 (as claimed): starting from a facility whose door ids and whose
\* camera ids are pairwise distinct across all slabs, after any sequence of
\* editor operations (add, move, update, delete) the door ids and the
\* camera ids are still pairwise distinct across all slabs.
C30_IdsStayUnique ==
  /\ DistinctIds(getAllDoors(edData.data))
  /\ DistinctIds(getAllCameras(edData.data))

\* C30, where it does not hold: updateDoor of washington with the property
\* id = lincoln was applied to the facility and returned; the door of slab
\* mercury and the door of slab venus are both called lincoln
C30_TwoDoorsSameId ==
  /\ edLog = <<[operation |-> "updateDoor", id |-> "washington", threw |-> "none"]>>
  /\ Len(getAllDoors(edData.data)) = 2
  /\ edData.data.slabs[1].doors[1]["id"] = Str("lincoln")
  /\ edData.data.slabs[2].doors[1]["id"] = Str("lincoln")
  /\ DistinctIds(getAllDoors(Facility))
  /\ DistinctIds(getAllCameras(Facility))

====
